---------------------------- MODULE Spec2Model ----------------------------
(***************************************************************************)
(* Reference index, fuzzy search and row reconciliation of idn-area-etl    *)
(* (src/idn_area_etl/ground_truth.py, utils.py, normalizer.py).            *)
(*                                                                         *)
(* Every Python string is a sequence of one-character strings, so that     *)
(* lower-casing and the similarity score are computed, not assumed.        *)
(* None is the empty tuple and an optional value v is the tuple <<v>>.      *)
(* A dict is a function whose DOMAIN is the set of its keys.               *)
(* A score is the exact fraction [num, den] in lowest terms.               *)
(***************************************************************************)
EXTENDS Integers, Sequences, FiniteSets, TLC

VARIABLES
    area,                   \* area type the run works on (normalize_csv's area)
    confidence_threshold,   \* Normalizer.confidence_threshold
    ambiguity_threshold,    \* Normalizer.ambiguity_threshold
    records,                \* [area -> AreaIndex.records / IslandIndex.records]
    code_to_record,         \* [area -> _code_to_record]
    idx_names,              \* [area -> _names]
    idx_codes,              \* [area -> _codes]
    hierarchy,              \* [area -> _<children>_by_<parent>]
    result,                 \* what the last call returned
    dir_exists,             \* load_from_directory: directory.is_dir()
    dir_files,              \* load_from_directory: sorted(directory.glob("*.csv"))
    load_pc,                \* load_from_directory: position of the call
    load_pos,               \* load_from_directory: number of files iterated
    input_file,             \* validate_csv: the CSV file at file_path
    chunk_size,             \* validate_csv: chunk_size
    validation_report,      \* validate_csv: report
    invalid_row_numbers,    \* validate_csv: invalid_row_numbers
    rows_in_chunk,          \* validate_csv: rows_in_chunk
    validate_pc,            \* validate_csv: position of the generator
    validate_pos,           \* validate_csv: number of data rows read
    yielded,                \* validate_csv: the reports as they were yielded
    input_rows,             \* normalize_csv: the data rows of input_path
    normalization_report,   \* normalize_csv: report
    normalize_pc,           \* normalize_csv: position of the call
    normalize_pos,          \* normalize_csv: number of rows read
    report_csv,             \* write_report_csv: the lines written
    corrected_csv,          \* write_corrected_csv: the call and its file
    cache_files,            \* remote: number of *.csv files in the cache directory
    metadata,               \* remote: content of metadata.json, <<>> without one
    latest_release,         \* remote: tag of the latest release on GitHub
    writers,                \* TableExtractor._writers: [area -> OutputWriter]
    seen_provinces,         \* AreaExtractor._seen_provinces
    interrupted,            \* cli.interrupted
    extract_pc,             \* extract: position of the command
    chunks,                 \* extract: the tables camelot reads, per chunk
    chunk_pos,              \* extract: number of chunks read
    extracted_count,        \* extract: extracted_count
    interrupted_at,         \* history: <<chunks begun>> when SIGINT arrived
    tempenv,                \* tempfile.tempdir, atexit and the directories
    tmpdir                  \* extract: the --tmpdir option, <<>> without one

indexVars == <<records, code_to_record, idx_names, idx_codes, hierarchy>>
configVars == <<area, confidence_threshold, ambiguity_threshold>>
loadVars == <<dir_exists, dir_files, load_pc, load_pos>>
validateVars == <<input_file, chunk_size, validation_report,
                  invalid_row_numbers, rows_in_chunk, validate_pc,
                  validate_pos, yielded>>
reportVars == <<input_rows, normalization_report, normalize_pc,
                normalize_pos, report_csv, corrected_csv>>
remoteVars == <<cache_files, metadata, latest_release>>
writerVars == <<writers, seen_provinces>>
extractVars == <<interrupted, extract_pc, chunks, chunk_pos,
                 extracted_count, interrupted_at>>
tempVars == <<tempenv, tmpdir>>
laterVars == <<remoteVars, writerVars, extractVars, tempVars>>
vars == <<area, confidence_threshold, ambiguity_threshold, records,
          code_to_record, idx_names, idx_codes, hierarchy, result,
          dir_exists, dir_files, load_pc, load_pos, input_file, chunk_size,
          validation_report, invalid_row_numbers, rows_in_chunk,
          validate_pc, validate_pos, yielded, input_rows,
          normalization_report, normalize_pc, normalize_pos, report_csv,
          corrected_csv, cache_files, metadata, latest_release, writers,
          seen_provinces, interrupted, extract_pc, chunks,
          chunk_pos, extracted_count, interrupted_at, tempenv, tmpdir>>

-----------------------------------------------------------------------------
(* Bounds *)

MaxRecords == 4

MaxFiles == 2

MaxLines == 3

MaxRows == 3

-----------------------------------------------------------------------------
(* Strings *)

E == <<>>

Areas == {"province", "regency", "district", "village", "island"}

AreaTypes == {"province", "regency", "district", "village"}

LowerChar(ch) ==
    CASE ch = "A" -> "a"
      [] ch = "B" -> "b"
      [] ch = "C" -> "c"
      [] OTHER -> ch

RECURSIVE Lower(_)
Lower(s) == IF s = E THEN E ELSE <<LowerChar(Head(s))>> \o Lower(Tail(s))

Max(x, y) == IF x >= y THEN x ELSE y

RECURSIVE GCD(_, _)
GCD(x, y) == IF y = 0 THEN x ELSE GCD(y, x % y)

Frac(n, d) == [num |-> n \div GCD(n, d), den |-> d \div GCD(n, d)]

Hundred == Frac(100, 1)

\* a >= t for a score a and a number t
ScoreAtLeast(a, t) == a.num >= t * a.den

\* a > b for two scores
ScoreGreater(a, b) == a.num * b.den > b.num * a.den

\* (a - b) < t for two scores and a number t
GapBelow(a, b, t) == a.num * b.den - b.num * a.den < t * a.den * b.den

-----------------------------------------------------------------------------
(* Fuzzy matching primitives (utils.py) *)

\* length of the longest common subsequence: the Indel distance of
\* rapidfuzz's fuzz.ratio is Len(a) + Len(b) - 2 * LCS(a, b)
RECURSIVE LCS(_, _)
LCS(a, b) ==
    IF a = E \/ b = E THEN 0
    ELSE IF Head(a) = Head(b) THEN 1 + LCS(Tail(a), Tail(b))
    ELSE Max(LCS(Tail(a), b), LCS(a, Tail(b)))

\* fuzz.ratio(a, b): 100 * (1 - indel / (len(a) + len(b))), 100 for two
\* empty strings
fuzz_ratio(a, b) ==
    IF Len(a) + Len(b) = 0 THEN Hundred
    ELSE Frac(200 * LCS(a, b), Len(a) + Len(b))

\* positions of choices whose score reaches the cutoff
Kept(query, choices, threshold) ==
    {i \in 1..Len(choices) :
        ScoreAtLeast(fuzz_ratio(Lower(query), Lower(choices[i])), threshold)}

\* the position process.extract returns first among idxs: the highest score,
\* the earliest position among equal scores
Best(query, choices, idxs) ==
    CHOOSE i \in idxs :
        \A j \in idxs \ {i} :
            LET si == fuzz_ratio(Lower(query), Lower(choices[i]))
                sj == fuzz_ratio(Lower(query), Lower(choices[j]))
            IN  ScoreGreater(si, sj) \/ (si = sj /\ i < j)

\* process.extract(..., limit=n, score_cutoff=threshold): the kept positions
\* by descending score, at most n of them
RECURSIVE Extract(_, _, _, _)
Extract(query, choices, idxs, n) ==
    IF n = 0 \/ idxs = {} THEN <<>>
    ELSE LET b == Best(query, choices, idxs)
         IN  <<b>> \o Extract(query, choices, idxs \ {b}, n - 1)

MatchCandidate(v, s, k) == [value |-> v, score |-> s, key |-> k]

fuzzy_search_top_n(query, choices, n, threshold, keys) ==
    IF query = E \/ choices = <<>> THEN <<>>
    ELSE LET results == Extract(query, choices,
                                Kept(query, choices, threshold), n)
         IN  [r \in 1..Len(results) |->
                MatchCandidate(choices[results[r]],
                               fuzz_ratio(Lower(query), Lower(choices[results[r]])),
                               keys[results[r]])]

-----------------------------------------------------------------------------
(* Dicts *)

Get(d, k) == IF k \in DOMAIN d THEN d[k] ELSE E

Put(d, k, v) == [x \in DOMAIN d \cup {k} |-> IF x = k THEN v ELSE d[x]]

EmptyDict == [x \in {} |-> E]

-----------------------------------------------------------------------------
(* Reference records (ground_truth.py) *)

AreaRecord(c, n, p) == [code |-> c, name |-> n, parent_code |-> p]

IslandRecord(c, n, r, co, ip, io) ==
    [code |-> c, name |-> n, regency_code |-> r, coordinate |-> co,
     is_populated |-> ip, is_outermost_small |-> io]

C1 == <<"1">>
C2 == <<"2">>
C9 == <<"9">>
P1 == <<"7">>
P2 == <<"8">>
X == <<"x">>
Zero == <<"0">>
One == <<"1">>

\* reference records the add operations draw from: two codes each used
\* twice (a later record replaces an earlier one in the code map), empty and
\* non-empty parents, names that differ in case, by one and by two letters
AreaPool ==
    {AreaRecord(C1, <<"a", "b">>, P1),
     AreaRecord(C2, <<"A", "b">>, P1),
     AreaRecord(C1, <<"a", "b", "c">>, E),
     AreaRecord(C2, <<"a">>, P2)}

ProvincePool == {AreaRecord(r.code, r.name, E) : r \in AreaPool}

IslandPool ==
    {IslandRecord(C1, <<"a", "b">>, P1, X, One, Zero),
     IslandRecord(C2, <<"c">>, P1, E, E, E),
     IslandRecord(C1, <<"a", "b", "c">>, E, X, One, One),
     IslandRecord(C2, <<"a">>, P2, X, Zero, One)}

RecordPool(a) ==
    CASE a = "province" -> ProvincePool
      [] a = "island" -> IslandPool
      [] OTHER -> AreaPool

\* the parent reference of a stored record
ParentOf(a, r) == IF a = "island" THEN r.regency_code ELSE r.parent_code

-----------------------------------------------------------------------------
(* AreaIndex / IslandIndex *)

\* the index as one value: the five containers of a GroundTruthIndex
Index ==
    [records |-> records, code_to_record |-> code_to_record,
     idx_names |-> idx_names, idx_codes |-> idx_codes,
     hierarchy |-> hierarchy]

\* self._code_to_record[record.code] = record, keeping the first record of a
\* code instead of the last
add_code_first_wins(m, r) == IF r.code \in DOMAIN m THEN m ELSE Put(m, r.code, r)

\* self._code_to_record[record.code] = record
add_code(m, r) == Put(m, r.code, r)

\* AreaIndex.add / IslandIndex.add on the index of area a
index_add(ix, a, r) ==
    [ix EXCEPT !.records[a] = Append(@, r),
               !.code_to_record[a] = add_code(@, r),
               !.idx_names[a] = Append(@, r.name),
               !.idx_codes[a] = Append(@, r.code)]

get_by_code(a, code) ==
    IF code \in DOMAIN code_to_record[a] THEN <<code_to_record[a][code]>>
    ELSE <<>>

has_code(a, code) == code \in DOMAIN code_to_record[a]

search_by_name(a, name, n, threshold) ==
    fuzzy_search_top_n(name, idx_names[a], n, threshold, idx_codes[a])

-----------------------------------------------------------------------------
(* GroundTruthIndex *)

\* _get_hierarchy_map: provinces have none
HasHierarchyMap(a) == a # "province"

\* the record put at the front of the children list of its parent
hierarchy_add_in_front(ix, a, r) ==
    IF HasHierarchyMap(a) /\ ParentOf(a, r) # E
    THEN LET p == ParentOf(a, r)
             old == IF p \in DOMAIN ix.hierarchy[a] THEN ix.hierarchy[a][p]
                    ELSE <<>>
         IN  [ix EXCEPT !.hierarchy[a] = Put(@, p, <<r>> \o old)]
    ELSE ix

\* the children list of the record's parent grows by the record, when the
\* area has a hierarchy map and the record a parent
hierarchy_add(ix, a, r) ==
    IF HasHierarchyMap(a) /\ ParentOf(a, r) # E
    THEN LET p == ParentOf(a, r)
             old == IF p \in DOMAIN ix.hierarchy[a] THEN ix.hierarchy[a][p]
                    ELSE <<>>
         IN  [ix EXCEPT !.hierarchy[a] = Put(@, p, Append(old, r))]
    ELSE ix

add_area_record(ix, a, r) == hierarchy_add(index_add(ix, a, r), a, r)

add_island_record(ix, r) ==
    hierarchy_add(index_add(ix, "island", r), "island", r)

\* get_regencies_for_province, get_districts_for_regency,
\* get_villages_for_district, get_islands_for_regency
get_children(a, parent_code) ==
    IF parent_code \in DOMAIN hierarchy[a] THEN hierarchy[a][parent_code]
    ELSE <<>>

NamesOf(recs) == [i \in 1..Len(recs) |-> recs[i].name]

CodesOf(recs) == [i \in 1..Len(recs) |-> recs[i].code]

search_name_in_context(name, a, parent_code, n, threshold) ==
    IF parent_code # E /\ a = "island"
    THEN LET islands == get_children(a, parent_code)
         IN  fuzzy_search_top_n(name, NamesOf(islands), n, threshold,
                                CodesOf(islands))
    ELSE LET recs == IF parent_code # E /\ a # "province"
                     THEN get_children(a, parent_code) ELSE <<>>
         IN  IF recs # <<>>
             THEN fuzzy_search_top_n(name, NamesOf(recs), n, threshold,
                                     CodesOf(recs))
             ELSE search_by_name(a, name, n, threshold)

-----------------------------------------------------------------------------
(* Normalizer (normalizer.py) *)

\* n=3 of the two search_name_in_context calls
TopN == 3

NormalizationSuggestion(o, s, c, r) ==
    [original |-> o, suggested |-> s, confidence |-> c, reason |-> r]

RowNormalization(n, o, c, st, sg) ==
    [row_number |-> n, original |-> o, corrected |-> c, status |-> st,
     suggestions |-> sg]

\* Normalizer._get_parent_field
get_parent_field(a) ==
    CASE a = "province" -> ""
      [] a = "regency" -> "province_code"
      [] a = "district" -> "regency_code"
      [] a = "village" -> "district_code"
      [] a = "island" -> "regency_code"

\* _get_record_by_code with the district branch reading the regency index
get_record_by_code_wrong_index(a, code) ==
    IF a = "district" THEN get_by_code("regency", code)
    ELSE IF a \in AreaTypes THEN get_by_code(a, code) ELSE <<>>

\* Normalizer._get_record_by_code
get_record_by_code(a, code) ==
    IF a \in AreaTypes THEN get_by_code(a, code) ELSE <<>>

\* the suggestions of the ambiguous branch, one per match
CandidateSuggestions(name, matches) ==
    [i \in 1..Len(matches) |->
        NormalizationSuggestion(name, matches[i].value, matches[i].score,
                                <<"Fuzzy match candidate", matches[i].key>>)]

\* the ambiguity test made only with three matches
IsAmbiguous_three(matches) ==
    /\ Len(matches) > 2
    /\ GapBelow(matches[1].score, matches[2].score, ambiguity_threshold)

IsAmbiguous(matches) ==
    /\ Len(matches) > 1
    /\ GapBelow(matches[1].score, matches[2].score, ambiguity_threshold)

evaluate_matches(row, row_num, name, corrected, matches, a) ==
    IF IsAmbiguous(matches)
    THEN RowNormalization(row_num, row, corrected, "ambiguous",
                          CandidateSuggestions(name, matches))
    ELSE LET top_match == matches[1]
             found == get_record_by_code(a, top_match.key)
         IN  IF found # <<>>
             THEN LET record == found[1]
                      c1 == Put(Put(corrected, "name", record.name),
                                "code", record.code)
                      c2 == IF record.parent_code # E /\ get_parent_field(a) # ""
                            THEN Put(c1, get_parent_field(a), record.parent_code)
                            ELSE c1
                  IN  RowNormalization(row_num, row, c2, "corrected",
                        <<NormalizationSuggestion(name, record.name,
                            top_match.score, <<"Fuzzy matched to", record.code>>)>>)
             ELSE RowNormalization(row_num, row, corrected, "not_found", <<>>)

\* _normalize_by_name reporting a row without candidates as valid
normalize_by_name_valid(row, row_num, name, a, corrected, parent_code) ==
    LET matches == search_name_in_context(name, a, parent_code, TopN,
                                          confidence_threshold)
    IN  IF matches = <<>>
        THEN RowNormalization(row_num, row, corrected, "valid", <<>>)
        ELSE evaluate_matches(row, row_num, name, corrected, matches, a)

normalize_by_name(row, row_num, name, a, corrected, parent_code) ==
    LET matches == search_name_in_context(name, a, parent_code, TopN,
                                          confidence_threshold)
    IN  IF matches = <<>>
        THEN RowNormalization(row_num, row, corrected, "not_found", <<>>)
        ELSE evaluate_matches(row, row_num, name, corrected, matches, a)

\* the suggestion is recorded and the corrected mapping left as it was
PutIf_never(cond, d, k, v) == d

PutIf(cond, d, k, v) == IF cond THEN Put(d, k, v) ELSE d

normalize_island_by_name(row, row_num, name, corrected, regency_code) ==
    LET matches == search_name_in_context(name, "island", regency_code, TopN,
                                          confidence_threshold)
    IN  IF matches = <<>>
        THEN RowNormalization(row_num, row, corrected, "not_found", <<>>)
        ELSE IF IsAmbiguous(matches)
        THEN RowNormalization(row_num, row, corrected, "ambiguous",
                              CandidateSuggestions(name, matches))
        ELSE LET top_match == matches[1]
                 found == get_by_code("island", top_match.key)
             IN  IF found # <<>>
                 THEN LET record == found[1]
                          c1 == Put(Put(corrected, "name", record.name),
                                    "code", record.code)
                          c2 == PutIf(record.regency_code # E, c1,
                                      "regency_code", record.regency_code)
                          c3 == PutIf(record.coordinate # E, c2,
                                      "coordinate", record.coordinate)
                          c4 == PutIf(record.is_populated # E, c3,
                                      "is_populated", record.is_populated)
                          c5 == PutIf(record.is_outermost_small # E, c4,
                                      "is_outermost_small",
                                      record.is_outermost_small)
                      IN  RowNormalization(row_num, row, c5, "corrected",
                            <<NormalizationSuggestion(name, record.name,
                                top_match.score,
                                <<"Fuzzy matched to", record.code>>)>>)
                 ELSE RowNormalization(row_num, row, corrected, "not_found",
                                       <<>>)

\* the suggestion of the exact-code path for one divergent field
CodeSuggestion(differs, what, original, suggested, code) ==
    IF differs
    THEN <<NormalizationSuggestion(original, suggested, Hundred,
                                   <<what, code>>)>>
    ELSE <<>>

\* normalize_province that keeps the status valid when the name differs
normalize_province_always_valid(row, row_num) ==
    LET code == Get(row, "code")
        name == Get(row, "name")
        corrected == row
        found == get_by_code("province", code)
    IN  IF found # <<>>
        THEN RowNormalization(row_num, row,
                PutIf(found[1].name # name, corrected, "name", found[1].name),
                "valid",
                CodeSuggestion(found[1].name # name,
                               "Name corrected to match code", name,
                               found[1].name, code))
        ELSE normalize_by_name(row, row_num, name, "province", corrected, E)

\* normalize_province whose corrected mapping starts empty instead of as a
\* copy of the row
normalize_province_fresh_dict(row, row_num) ==
    LET code == Get(row, "code")
        name == Get(row, "name")
        corrected == EmptyDict
        found == get_by_code("province", code)
    IN  IF found # <<>>
        THEN IF found[1].name = name
             THEN RowNormalization(row_num, row, corrected, "valid", <<>>)
             ELSE RowNormalization(row_num, row,
                    Put(corrected, "name", found[1].name), "corrected",
                    CodeSuggestion(TRUE, "Name corrected to match code",
                                   name, found[1].name, code))
        ELSE normalize_by_name(row, row_num, name, "province", corrected, E)

normalize_province(row, row_num) ==
    LET code == Get(row, "code")
        name == Get(row, "name")
        corrected == row
        found == get_by_code("province", code)
    IN  IF found # <<>>
        THEN IF found[1].name = name
             THEN RowNormalization(row_num, row, corrected, "valid", <<>>)
             ELSE RowNormalization(row_num, row,
                    Put(corrected, "name", found[1].name), "corrected",
                    CodeSuggestion(TRUE, "Name corrected to match code",
                                   name, found[1].name, code))
        ELSE normalize_by_name(row, row_num, name, "province", corrected, E)

\* the common body of normalize_regency, normalize_district and
\* normalize_village
NormalizeChild(a, column, what, row, row_num) ==
    LET code == Get(row, "code")
        parent_code == Get(row, column)
        name == Get(row, "name")
        corrected == row
        found == get_by_code(a, code)
    IN  IF found # <<>>
        THEN LET record == found[1]
                 suggestions ==
                    CodeSuggestion(record.name # name,
                        "Name corrected to match code", name, record.name,
                        code)
                    \o CodeSuggestion(record.parent_code # parent_code,
                        what, parent_code, record.parent_code, code)
                 c1 == PutIf(record.name # name, corrected, "name",
                             record.name)
                 c2 == PutIf(record.parent_code # parent_code, c1,
                             column, record.parent_code)
             IN  IF suggestions # <<>>
                 THEN RowNormalization(row_num, row, c2, "corrected",
                                       suggestions)
                 ELSE RowNormalization(row_num, row, c2, "valid", <<>>)
        ELSE normalize_by_name(row, row_num, name, a, corrected, parent_code)

\* the parent code read from the column of the next area type
normalize_regency_wrong_column(row, row_num) ==
    NormalizeChild("regency", "regency_code",
                   "Province code corrected to match code", row, row_num)

normalize_regency(row, row_num) ==
    NormalizeChild("regency", "province_code",
                   "Province code corrected to match code", row, row_num)

normalize_district(row, row_num) ==
    NormalizeChild("district", "regency_code",
                   "Regency code corrected to match code", row, row_num)

normalize_village(row, row_num) ==
    NormalizeChild("village", "district_code",
                   "District code corrected to match code", row, row_num)

normalize_island(row, row_num) ==
    LET code == Get(row, "code")
        regency_code == Get(row, "regency_code")
        name == Get(row, "name")
        corrected == row
        found == get_by_code("island", code)
    IN  IF found # <<>>
        THEN LET record == found[1]
                 coord_differs == record.coordinate # E
                                  /\ Get(row, "coordinate") # record.coordinate
                 suggestions ==
                    CodeSuggestion(record.name # name,
                        "Name corrected to match code", name, record.name,
                        code)
                    \o CodeSuggestion(record.regency_code # regency_code,
                        "Regency code corrected to match code", regency_code,
                        record.regency_code, code)
                    \o CodeSuggestion(coord_differs,
                        "Coordinate corrected to match code",
                        Get(row, "coordinate"), record.coordinate, code)
                 c1 == PutIf(record.name # name, corrected, "name",
                             record.name)
                 c2 == PutIf(record.regency_code # regency_code, c1,
                             "regency_code", record.regency_code)
                 c3 == PutIf(coord_differs, c2, "coordinate",
                             record.coordinate)
             IN  IF suggestions # <<>>
                 THEN RowNormalization(row_num, row, c3, "corrected",
                                       suggestions)
                 ELSE RowNormalization(row_num, row, c3, "valid", <<>>)
        ELSE normalize_island_by_name(row, row_num, name, corrected,
                                      regency_code)

normalize_row(row, row_num, a) ==
    CASE a = "province" -> normalize_province(row, row_num)
      [] a = "regency" -> normalize_regency(row, row_num)
      [] a = "district" -> normalize_district(row, row_num)
      [] a = "village" -> normalize_village(row, row_num)
      [] a = "island" -> normalize_island(row, row_num)

-----------------------------------------------------------------------------
(* Inputs *)

\* the defaults (80.0 and 5.0) and one more lenient setting of each
ConfidenceThresholds == {80, 50}

AmbiguityThresholds == {5, 25}

RowCodes == {C1, C2, C9}

RowParents == {E, P1, P2}

RowNames == {E, <<"a", "b">>, <<"c">>}

RowCoordinates == {E, X}

\* the parent column among the headers of the area's CSV
ParentColumn(a) ==
    CASE a = "regency" -> "province_code"
      [] a = "district" -> "regency_code"
      [] a = "village" -> "district_code"
      [] a = "island" -> "regency_code"

\* input rows with the columns of the area's CSV
Rows(a) ==
    CASE a = "province" ->
            {[code |-> c, name |-> n] : c \in RowCodes, n \in RowNames}
      [] a = "regency" ->
            {[code |-> c, province_code |-> p, name |-> n] :
                c \in RowCodes, p \in RowParents, n \in RowNames}
      [] a = "district" ->
            {[code |-> c, regency_code |-> p, name |-> n] :
                c \in RowCodes, p \in RowParents, n \in RowNames}
      [] a = "village" ->
            {[code |-> c, district_code |-> p, name |-> n] :
                c \in RowCodes, p \in RowParents, n \in RowNames}
      [] a = "island" ->
            {[code |-> c, regency_code |-> p, coordinate |-> co,
              is_populated |-> Zero, is_outermost_small |-> Zero,
              name |-> n] :
                c \in RowCodes, p \in RowParents, n \in RowNames,
                co \in RowCoordinates}

NoResult == [op |-> "none"]

-----------------------------------------------------------------------------
(* The reference index and the normalizer *)

EmptyIndex ==
    /\ records = [a \in Areas |-> <<>>]
    /\ code_to_record = [a \in Areas |-> EmptyDict]
    /\ idx_names = [a \in Areas |-> <<>>]
    /\ idx_codes = [a \in Areas |-> <<>>]
    /\ hierarchy = [a \in Areas |-> EmptyDict]

NoDirectory ==
    /\ dir_exists = FALSE
    /\ dir_files = <<>>
    /\ load_pc = "idle"
    /\ load_pos = 0

\* ValidationReport(area=area, total_rows=0)
NewValidationReport ==
    [total_rows |-> 0, valid_rows |-> 0, invalid_rows |-> 0, errors |-> <<>>]

NoValidation ==
    /\ input_file = [fieldnames |-> <<>>, lines |-> <<>>]
    /\ chunk_size = 1000
    /\ validation_report = NewValidationReport
    /\ invalid_row_numbers = {}
    /\ rows_in_chunk = 0
    /\ validate_pc = "idle"
    /\ validate_pos = 0
    /\ yielded = <<>>

\* NormalizationReport(area=area)
NewNormalizationReport ==
    [normalizations |-> <<>>, total_rows |-> 0, valid_rows |-> 0,
     corrected_rows |-> 0, ambiguous_rows |-> 0, not_found_rows |-> 0]

NoNormalizeCsv ==
    /\ input_rows = <<>>
    /\ normalization_report = NewNormalizationReport
    /\ normalize_pc = "idle"
    /\ normalize_pos = 0
    /\ report_csv = <<>>
    /\ corrected_csv = NoResult

\* no cache directory content, no metadata.json
NoRemote ==
    /\ cache_files = 0
    /\ metadata = <<>>
    /\ latest_release = "v1"

\* the columns of the two outputs the model follows
\* (config.data[area].output_headers); a column name is one token
output_headers(a) ==
    IF a = "province" THEN <<<<"code">>, <<"name">>>>
    ELSE <<<<"code">>, <<"province_code">>, <<"name">>>>

\* OutputWriter(path, header=header): open tells whether _file_handler is
\* set, buffer is _buffer, pending holds the lines written to the file
\* object and not yet flushed, file is <<>> while the path does not exist
\* and <<lines>> otherwise.  History: added holds every row ever given to
\* add(), base the number of them given before the rows that the open()
\* in force found in the buffer.
OutputWriter(header) ==
    [header |-> header, open |-> FALSE, buffer |-> <<>>, pending |-> <<>>,
     file |-> <<>>, added |-> <<>>, base |-> 0]

WriterIds == {"province", "regency"}

\* TableExtractor.__init__ / AreaExtractor.__init__
NoWriter ==
    /\ writers = [a \in WriterIds |-> OutputWriter(output_headers(a))]
    /\ seen_provinces = {}

\* the extract command is not running
NoExtract ==
    /\ interrupted = FALSE
    /\ extract_pc = "idle"
    /\ chunks = <<>>
    /\ chunk_pos = 0
    /\ extracted_count = 0
    /\ interrupted_at = <<>>

\* the default temporary directory of the system
DefaultTempDir == <<0>>

\* a process that has not asked for a temporary directory yet:
\* tempfile.tempdir is None, atexit.register is the built-in (<<>>), no
\* exit handler is registered and no CamelotTempDir block is entered
NoTemp ==
    /\ tempenv = [tempdir |-> <<>>, register |-> <<>>, handlers |-> <<>>,
                  dirs |-> {DefaultTempDir}, blocks |-> <<>>, made |-> 0]
    /\ tmpdir = <<>>

NoLater ==
    /\ NoRemote
    /\ NoWriter
    /\ NoExtract
    /\ NoTemp

\* GroundTruthIndex() and Normalizer(ground_truth, ...)
Init ==
    /\ area \in Areas
    /\ confidence_threshold \in ConfidenceThresholds
    /\ ambiguity_threshold \in AmbiguityThresholds
    /\ EmptyIndex
    /\ result = NoResult
    /\ NoDirectory
    /\ NoValidation
    /\ NoNormalizeCsv
    /\ NoLater

SetIndex(ix) ==
    /\ records' = ix.records
    /\ code_to_record' = ix.code_to_record
    /\ idx_names' = ix.idx_names
    /\ idx_codes' = ix.idx_codes
    /\ hierarchy' = ix.hierarchy

AddAreaRecord ==
    /\ area \in AreaTypes
    /\ Len(records[area]) < MaxRecords
    /\ \E r \in RecordPool(area) : SetIndex(add_area_record(Index, area, r))
    /\ result' = NoResult
    /\ UNCHANGED <<configVars, loadVars, validateVars, reportVars, laterVars>>

AddIslandRecord ==
    /\ area = "island"
    /\ Len(records[area]) < MaxRecords
    /\ \E r \in IslandPool : SetIndex(add_island_record(Index, r))
    /\ result' = NoResult
    /\ UNCHANGED <<configVars, loadVars, validateVars, reportVars, laterVars>>

\* A call leaves the index and the configuration unchanged, so a call made
\* after another call returns what it returns when made first: calls start
\* from a state where no return value is held, and the reachable states are
\* the same as with chained calls.
NormalizeRow ==
    /\ result = NoResult
    /\ \E row \in Rows(area) :
        result' = [op |-> "normalize_row",
                   out |-> normalize_row(row, 2, area)]
    /\ UNCHANGED <<configVars, indexVars, loadVars, validateVars,
                   reportVars, laterVars>>

SearchNameInContext ==
    /\ result = NoResult
    /\ \E name \in RowNames, parent_code \in RowParents :
        result' = [op |-> "search_name_in_context", name |-> name,
                   parent_code |-> parent_code,
                   matches |-> search_name_in_context(name, area,
                                   parent_code, TopN, confidence_threshold)]
    /\ UNCHANGED <<configVars, indexVars, loadVars, validateVars,
                   reportVars, laterVars>>

GetByCode ==
    /\ result = NoResult
    /\ \E code \in RowCodes :
        result' = [op |-> "get_by_code", code |-> code,
                   value |-> get_by_code(area, code)]
    /\ UNCHANGED <<configVars, indexVars, loadVars, validateVars,
                   reportVars, laterVars>>

\* the parent codes a caller asks the children of
QueryParents == RowParents \cup {C9}

\* get_regencies_for_province, get_districts_for_regency,
\* get_villages_for_district or get_islands_for_regency is called
GetChildren ==
    /\ result = NoResult
    /\ HasHierarchyMap(area)
    /\ \E p \in QueryParents :
            result' = [op |-> "get_children", parent_code |-> p,
                       value |-> get_children(area, p)]
    /\ UNCHANGED <<configVars, indexVars, loadVars, validateVars,
                   reportVars, laterVars>>

Next ==
    \/ GetChildren
    \/ AddAreaRecord
    \/ AddIslandRecord
    \/ NormalizeRow
    \/ SearchNameInContext
    \/ GetByCode

Spec == Init /\ [][Next]_vars

-----------------------------------------------------------------------------
(* Reading the state a call of normalize_row left *)

IsNorm == result.op = "normalize_row"

Out == result.out

Row == result.out.original

RowCode == Get(Row, "code")

RowName == Get(Row, "name")

RowParent == IF area = "province" THEN E ELSE Get(Row, ParentColumn(area))

CodeFound == RowCode \in DOMAIN code_to_record[area]

Ref == code_to_record[area][RowCode]

\* the candidates the fuzzy-name fallback of the row gets
Candidates ==
    search_name_in_context(RowName, area, RowParent, TopN,
                           confidence_threshold)

NameDiffers == Ref.name # RowName

ParentDiffers == area # "province" /\ ParentOf(area, Ref) # RowParent

CoordinateDiffers ==
    area = "island" /\ Ref.coordinate # Get(Row, "coordinate")

\* the divergent coordinate the exact-code path corrects: the reference has one
CoordinateCorrected == CoordinateDiffers /\ Ref.coordinate # E

Count(b) == IF b THEN 1 ELSE 0

ConfidentSuggestions ==
    {i \in 1..Len(Out.suggestions) : Out.suggestions[i].confidence = Hundred}

-----------------------------------------------------------------------------
C2_ExactlyOneConfident ==
    (IsNorm /\ CodeFound /\ NameDiffers)
    => /\ Out.status = "corrected"
       /\ Out.corrected["name"] = Ref.name
       /\ Cardinality(ConfidentSuggestions) = 1

(* C2 amended: code in the index and a different name give status          *)
(* corrected and the reference name in corrected; the first suggestion     *)
(* replaces the row's name by the reference name; there is one suggestion  *)
(* per divergent field (name, parent code, island coordinate the reference *)
(* has), each of confidence 100: exactly one when only the name differs.   *)
C2_OneConfidentPerDivergentField ==
    (IsNorm /\ CodeFound /\ NameDiffers)
    => /\ Out.status = "corrected"
       /\ Out.corrected["name"] = Ref.name
       /\ Out.suggestions[1].original = RowName
       /\ Out.suggestions[1].suggested = Ref.name
       /\ Len(Out.suggestions) =
            1 + Count(ParentDiffers) + Count(CoordinateCorrected)
       /\ Cardinality(ConfidentSuggestions) = Len(Out.suggestions)

C2_Witness ==
    /\ IsNorm /\ CodeFound /\ NameDiffers /\ ParentDiffers
    /\ Len(Out.suggestions) = 2

(* C3: a row whose code is not in the index and whose search returns at    *)
(* least 2 candidates with (best - second) below ambiguity_threshold is    *)
(* ambiguous, its corrected mapping equals the original, and it has one    *)
(* suggestion per returned candidate (at most 3), in candidate order.      *)
C3_AmbiguousKeepsRow ==
    (IsNorm /\ ~CodeFound /\ Len(Candidates) >= 2
        /\ GapBelow(Candidates[1].score, Candidates[2].score,
                    ambiguity_threshold))
    => /\ Out.status = "ambiguous"
       /\ Out.corrected = Out.original
       /\ Len(Out.suggestions) = Len(Candidates)
       /\ Len(Out.suggestions) <= 3
       /\ \A i \in 1..Len(Candidates) :
            /\ Out.suggestions[i].original = RowName
            /\ Out.suggestions[i].suggested = Candidates[i].value
            /\ Out.suggestions[i].confidence = Candidates[i].score

\* four indexed names reach the threshold and three candidates are returned
C3_Witness ==
    /\ IsNorm /\ ~CodeFound
    /\ Out.status = "ambiguous"
    /\ Len(Out.suggestions) = 3
    /\ Cardinality(Kept(RowName, idx_names[area], confidence_threshold)) = 4
    /\ Out.suggestions[1].confidence # Out.suggestions[3].confidence

(* C4: a row whose code is not in the index and whose search returns no    *)
(* candidate at or above confidence_threshold is not_found, has no         *)
(* suggestions and its corrected mapping equals the original; the call     *)
(* returns this as a value.                                                *)
C4_NoCandidateIsNotFound ==
    (IsNorm /\ ~CodeFound /\ Candidates = <<>>)
    => /\ Out.status = "not_found"
       /\ Out.suggestions = <<>>
       /\ Out.corrected = Out.original

\* a non-empty name searched in a non-empty index, every score below the
\* threshold
C4_Witness ==
    /\ IsNorm /\ ~CodeFound /\ Candidates = <<>>
    /\ RowName # E
    /\ Len(records[area]) >= 2
    /\ Out.status = "not_found"

(* C5: every call ends in one of the four statuses; with the code in the   *)
(* index the status is valid when there are no suggestions and corrected   *)
(* otherwise; with the code not in the index it is corrected, ambiguous or *)
(* not_found.                                                              *)
C5_StatusByPath ==
    IsNorm
    => /\ Out.status \in {"valid", "corrected", "ambiguous", "not_found"}
       /\ CodeFound =>
            /\ Out.status \in {"valid", "corrected"}
            /\ (Out.status = "valid") <=> (Out.suggestions = <<>>)
       /\ ~CodeFound =>
            Out.status \in {"corrected", "ambiguous", "not_found"}

C5_Witness ==
    /\ IsNorm /\ CodeFound
    /\ Out.status = "corrected"
    /\ Len(records[area]) >= 2

-----------------------------------------------------------------------------
(* The accepted top candidate of the fuzzy-name fallback *)

Accepted ==
    /\ IsNorm /\ ~CodeFound /\ Candidates # <<>>
    /\ ~(Len(Candidates) >= 2
         /\ GapBelow(Candidates[1].score, Candidates[2].score,
                     ambiguity_threshold))

Top == Candidates[1]

\* the reference record the candidate's key resolves to
TopRef == code_to_record[area][Top.key]

CorrectedEquals(column, value) == Get(Out.corrected, column) = value

\* the column holds the reference value, or the row's value when the
\* reference value is empty
CorrectedTakes(column, value) ==
    Get(Out.corrected, column) = IF value # E THEN value ELSE Get(Row, column)

(* C6 as stated: when the fuzzy fallback accepts the top candidate, code,  *)
(* name and parent field of corrected (for islands also coordinate,        *)
(* is_populated, is_outermost_small) equal the reference record resolved   *)
(* by the candidate's key, there is exactly one suggestion, with the top   *)
(* candidate's score, and the status is corrected.                         *)
C6_AcceptedCopiesReference ==
    Accepted
    => /\ Out.status = "corrected"
       /\ Len(Out.suggestions) = 1
       /\ Out.suggestions[1].confidence = Top.score
       /\ CorrectedEquals("code", TopRef.code)
       /\ CorrectedEquals("name", TopRef.name)
       /\ area # "province"
            => CorrectedEquals(ParentColumn(area), ParentOf(area, TopRef))
       /\ area = "island"
            => /\ CorrectedEquals("coordinate", TopRef.coordinate)
               /\ CorrectedEquals("is_populated", TopRef.is_populated)
               /\ CorrectedEquals("is_outermost_small",
                                  TopRef.is_outermost_small)

(* C6 amended: when the fuzzy fallback accepts the top candidate, code and *)
(* name of corrected equal the reference record resolved by the            *)
(* candidate's key; the parent field (for islands also coordinate,         *)
(* is_populated, is_outermost_small) equals the reference value when that  *)
(* value is non-empty and keeps the row's value when it is empty; there is *)
(* exactly one suggestion, with the top candidate's score, and the status  *)
(* is corrected.                                                           *)
C6_AcceptedCopiesNonEmptyReference ==
    Accepted
    => /\ Out.status = "corrected"
       /\ Len(Out.suggestions) = 1
       /\ Out.suggestions[1].confidence = Top.score
       /\ Out.suggestions[1].suggested = TopRef.name
       /\ CorrectedEquals("code", TopRef.code)
       /\ CorrectedEquals("name", TopRef.name)
       /\ area # "province"
            => CorrectedTakes(ParentColumn(area), ParentOf(area, TopRef))
       /\ area = "island"
            => /\ CorrectedTakes("coordinate", TopRef.coordinate)
               /\ CorrectedTakes("is_populated", TopRef.is_populated)
               /\ CorrectedTakes("is_outermost_small",
                                 TopRef.is_outermost_small)

\* accepted with a second candidate far enough behind, the reference parent
\* replacing a different parent of the row
C6_Witness ==
    /\ Accepted
    /\ Len(Candidates) >= 2
    /\ area # "province"
    /\ ParentOf(area, TopRef) # E
    /\ ParentOf(area, TopRef) # RowParent
    /\ Out.corrected # Out.original

-----------------------------------------------------------------------------
(* Reading the state a call of search_name_in_context left *)

IsSearch == result.op = "search_name_in_context"

\* the records of the area that were added with this parent code
ChildrenOf(p) ==
    SelectSeq(records[area], LAMBDA r : ParentOf(area, r) = p)

(* C7: for regency, district, village and island, search_name_in_context   *)
(* searches the children of parent_code when a parent code is supplied and *)
(* has at least one indexed child, and the full index of the area type in  *)
(* every other case.                                                       *)
C7_ScopedElseFullIndex ==
    (IsSearch /\ area # "province")
    => LET children == ChildrenOf(result.parent_code)
       IN  result.matches =
             IF result.parent_code # E /\ children # <<>>
             THEN fuzzy_search_top_n(result.name, NamesOf(children), TopN,
                                     confidence_threshold, CodesOf(children))
             ELSE fuzzy_search_top_n(result.name, idx_names[area], TopN,
                                     confidence_threshold, idx_codes[area])

(* C8: a row classified valid is classified valid again when its corrected *)
(* mapping is normalized against the same index, with an identical         *)
(* corrected mapping.                                                      *)
C8_ValidIsIdempotent ==
    (IsNorm /\ Out.status = "valid")
    => LET again == normalize_row(Out.corrected, 2, area)
       IN  /\ again.status = "valid"
           /\ again.corrected = Out.corrected

\* a valid island row whose coordinate the reference record does not have
C8_Witness ==
    /\ IsNorm /\ Out.status = "valid"
    /\ CoordinateDiffers
    /\ Get(Out.corrected, "coordinate") = X

-----------------------------------------------------------------------------
(* Reading the index *)

Positions(a) == 1..Len(records[a])

\* the position of the last record added with this code
LastWith(a, code) ==
    CHOOSE i \in Positions(a) :
        /\ records[a][i].code = code
        /\ \A j \in Positions(a) : j > i => records[a][j].code # code

Inserted(a, code) == \E i \in Positions(a) : records[a][i].code = code

IsLookup == result.op = "get_by_code"

(* C9 as stated: after any sequence of add operations every inserted       *)
(* record r is returned by get_by_code(r.code), and a code that was never  *)
(* inserted gives an empty result.                                         *)
C9_EveryInsertedIsReturned ==
    /\ \A a \in Areas : \A i \in Positions(a) :
            get_by_code(a, records[a][i].code) = <<records[a][i]>>
    /\ (IsLookup /\ ~Inserted(area, result.code)) => result.value = <<>>

(* C9 amended: after any sequence of add operations get_by_code(r.code)    *)
(* returns, for every inserted record r, the record added last with the    *)
(* code of r (r itself unless a later add used the same code), has_code    *)
(* holds of that code, and a code that was never inserted gives an empty   *)
(* result.                                                                 *)
C9_LastInsertedIsReturned ==
    /\ \A a \in Areas : \A i \in Positions(a) :
            /\ get_by_code(a, records[a][i].code)
                    = <<records[a][LastWith(a, records[a][i].code)]>>
            /\ has_code(a, records[a][i].code)
    /\ IsLookup =>
            /\ Inserted(area, result.code) =>
                    result.value =
                        <<records[area][LastWith(area, result.code)]>>
            /\ ~Inserted(area, result.code) => result.value = <<>>

\* a lookup of a code that two different records were added with
C9_Witness ==
    /\ IsLookup
    /\ \E i, j \in Positions(area) :
            /\ i < j
            /\ records[area][i].code = result.code
            /\ records[area][j].code = result.code
            /\ records[area][i] # records[area][j]
    /\ result.value # <<>>

-----------------------------------------------------------------------------
(* Loading the reference directory (ground_truth.py) *)

\* header sets of the reference files of the five area types
AreaHeaderSets ==
    {{"code", "name"},
     {"code", "province_code", "name"},
     {"code", "regency_code", "name"},
     {"code", "district_code", "name"},
     {"code", "regency_code", "coordinate", "is_populated",
      "is_outermost_small", "name"}}

\* a CSV file of another kind and an empty file
OtherHeaderSets == {{"id", "label"}, {}}

\* a village file that also carries the regency code and the coordinate
MixedHeaderSets ==
    {{"code", "district_code", "regency_code", "coordinate", "name"}}

\* ok: the file reads to its end; unreadable: open() raises OSError or the
\* first block does not decode (UnicodeDecodeError, a ValueError);
\* bad_rows: the header reads and the iteration over the rows raises after
\* the first row
Healths == {"ok", "unreadable", "bad_rows"}

ReferenceRow(headers, c, n) ==
    [k \in headers |->
        CASE k = "code" -> c
          [] k = "name" -> n
          [] k \in {"province_code", "regency_code", "district_code"} -> P1
          [] k = "is_populated" -> One
          [] k = "is_outermost_small" -> Zero
          [] OTHER -> X]

ReferenceRows(headers) ==
    IF headers = {} THEN <<>>
    ELSE <<ReferenceRow(headers, C1, <<"a", "b">>),
           ReferenceRow(headers, C2, <<"A", "b">>)>>

\* the CSV files a directory may hold: readable files of every kind, and
\* reference files that do not read or do not parse
FilePool ==
    {[health |-> h, headers |-> hs, rows |-> ReferenceRows(hs)] :
        h \in Healths, hs \in AreaHeaderSets}
    \cup {[health |-> "ok", headers |-> hs, rows |-> ReferenceRows(hs)] :
            hs \in OtherHeaderSets \cup MixedHeaderSets}

\* the detection with the village rule tried before the island rule
detect_area_type_village_first(file) ==
    IF file.health = "unreadable" THEN ""
    ELSE IF file.headers = {} THEN ""
    ELSE IF "district_code" \in file.headers THEN "village"
    ELSE IF "regency_code" \in file.headers
            /\ ("coordinate" \in file.headers
                \/ "is_populated" \in file.headers) THEN "island"
    ELSE IF "regency_code" \in file.headers THEN "district"
    ELSE IF "province_code" \in file.headers THEN "regency"
    ELSE IF "code" \in file.headers /\ "name" \in file.headers THEN "province"
    ELSE ""

\* None is "", as the code treats both alike (elif area_type)
detect_area_type_from_headers(file) ==
    IF file.health = "unreadable" THEN ""
    ELSE IF file.headers = {} THEN ""
    ELSE IF "regency_code" \in file.headers
            /\ ("coordinate" \in file.headers
                \/ "is_populated" \in file.headers) THEN "island"
    ELSE IF "district_code" \in file.headers THEN "village"
    ELSE IF "regency_code" \in file.headers THEN "district"
    ELSE IF "province_code" \in file.headers THEN "regency"
    ELSE IF "code" \in file.headers /\ "name" \in file.headers THEN "province"
    ELSE ""

\* GroundTruthIndex._get_parent_field
gt_get_parent_field(a) ==
    CASE a = "province" -> ""
      [] a = "regency" -> "province_code"
      [] a = "district" -> "regency_code"
      [] a = "village" -> "district_code"
      [] a = "island" -> "regency_code"

\* the loop of _load_area_csv over the rows it gets
RECURSIVE load_area_csv(_, _, _)
load_area_csv(ix, a, rows) ==
    IF rows = <<>> THEN ix
    ELSE LET row == Head(rows)
             parent_code == IF gt_get_parent_field(a) # ""
                            THEN Get(row, gt_get_parent_field(a)) ELSE E
             record == AreaRecord(Get(row, "code"), Get(row, "name"),
                                  parent_code)
         IN  load_area_csv(add_area_record(ix, a, record), a, Tail(rows))

\* the loop of _load_island_csv over the rows it gets
RECURSIVE load_island_csv(_, _)
load_island_csv(ix, rows) ==
    IF rows = <<>> THEN ix
    ELSE LET row == Head(rows)
             record == IslandRecord(Get(row, "code"), Get(row, "name"),
                            Get(row, "regency_code"), Get(row, "coordinate"),
                            Get(row, "is_populated"),
                            Get(row, "is_outermost_small"))
         IN  load_island_csv(add_island_record(ix, record), Tail(rows))

\* the rows the reader yields before it raises or ends
RowsRead(file) ==
    IF file.health = "bad_rows" THEN SubSeq(file.rows, 1, 1) ELSE file.rows

RECURSIVE SeqsUpTo(_, _)
SeqsUpTo(S, n) ==
    IF n = 0 THEN {<<>>}
    ELSE LET shorter == SeqsUpTo(S, n - 1)
         IN  shorter \cup {Append(q, x) : q \in shorter, x \in S}

\* GroundTruthIndex() and a directory to load
InitLoad ==
    /\ area = "province"
    /\ confidence_threshold = 80
    /\ ambiguity_threshold = 5
    /\ EmptyIndex
    /\ result = NoResult
    /\ dir_exists \in BOOLEAN
    /\ dir_files \in (IF dir_exists THEN SeqsUpTo(FilePool, MaxFiles)
                      ELSE {<<>>})
    /\ load_pc = "idle"
    /\ load_pos = 0
    /\ NoValidation
    /\ NoNormalizeCsv
    /\ NoLater

\* load_from_directory up to the loop: raises when the directory is missing
LoadStart ==
    /\ load_pc = "idle"
    /\ load_pc' = IF dir_exists THEN "loop" ELSE "raised"
    /\ UNCHANGED <<configVars, indexVars, result, dir_exists, dir_files,
                   load_pos, validateVars, reportVars, laterVars>>

\* one iteration of the loop over the CSV files
LoadFile ==
    /\ load_pc = "loop"
    /\ load_pos < Len(dir_files)
    /\ LET file == dir_files[load_pos + 1]
           area_type == detect_area_type_from_headers(file)
       IN  /\ SetIndex(IF area_type = "island"
                       THEN load_island_csv(Index, RowsRead(file))
                       ELSE IF area_type # ""
                       THEN load_area_csv(Index, area_type, RowsRead(file))
                       ELSE Index)
           /\ load_pc' = IF area_type # "" /\ file.health = "bad_rows"
                         THEN "raised" ELSE "loop"
    /\ load_pos' = load_pos + 1
    /\ UNCHANGED <<configVars, result, dir_exists, dir_files, validateVars,
                   reportVars, laterVars>>

\* the loop is over: load_from_directory returns
LoadReturn ==
    /\ load_pc = "loop"
    /\ load_pos = Len(dir_files)
    /\ load_pc' = "returned"
    /\ UNCHANGED <<configVars, indexVars, result, dir_exists, dir_files,
                   load_pos, validateVars, reportVars, laterVars>>

NextLoad ==
    \/ LoadStart
    \/ LoadFile
    \/ LoadReturn

SpecLoad == InitLoad /\ [][NextLoad]_vars

IndexIsEmpty == \A a \in Areas : records[a] = <<>>

(* C10: load_from_directory indexes every CSV file of the directory or     *)
(* aborts: a missing directory raises and leaves the index empty, and a    *)
(* file that cannot be read or parsed aborts the call instead of being     *)
(* skipped, so the call never returns with such a file in the directory.   *)
C10_NeverSilentlyPartial ==
    /\ (~dir_exists /\ load_pc # "idle")
            => (load_pc = "raised" /\ IndexIsEmpty)
    /\ load_pc = "returned"
            => \A i \in 1..Len(dir_files) : dir_files[i].health = "ok"

\* the rule of an area type, as a test of a header set
RuleHolds(t, hs) ==
    CASE t = "village" -> "district_code" \in hs
      [] t = "island" -> /\ "regency_code" \in hs
                         /\ {"coordinate", "is_populated"} \cap hs # {}
      [] t = "district" -> "regency_code" \in hs
      [] t = "regency" -> "province_code" \in hs
      [] t = "province" -> {"code", "name"} \subseteq hs

\* the type of the first rule of the order that holds, "" when none does
FirstRule(order, hs) ==
    LET hits == {i \in 1..Len(order) : RuleHolds(order[i], hs)}
    IN  IF hits = {} THEN ""
        ELSE order[CHOOSE i \in hits : \A j \in hits : i <= j]

StatedOrder == <<"village", "island", "district", "regency", "province">>
IslandFirstOrder == <<"island", "village", "district", "regency", "province">>

\* the files the loop has gone through all read to their end
ProcessedHealthy == \A i \in 1..load_pos : dir_files[i].health = "ok"

\* the codes of the rows of the processed files that the order gives to a
RECURSIVE CodesGiven(_, _, _)
CodesGiven(a, order, n) ==
    IF n = 0 THEN <<>>
    ELSE CodesGiven(a, order, n - 1)
            \o (IF FirstRule(order, dir_files[n].headers) = a
                THEN [i \in 1..Len(dir_files[n].rows) |->
                        dir_files[n].rows[i]["code"]]
                ELSE <<>>)

IndexFollows(order) ==
    (load_pc \in {"loop", "returned"} /\ ProcessedHealthy) =>
        \A a \in Areas : idx_codes[a] = CodesGiven(a, order, load_pos)

(* C11 as stated: the area type of a reference file is that of the first   *)
(* rule its header set matches in the order village (district_code),       *)
(* island (regency_code with coordinate or is_populated), district,        *)
(* regency, province; a file matching no rule adds no record.              *)
C11_VillageRuleFirst == IndexFollows(StatedOrder)

(* C11 amended: the area type of a reference file is that of the first     *)
(* rule its header set matches in the order island (regency_code with      *)
(* coordinate or is_populated), village (district_code), district          *)
(* (regency_code), regency (province_code), province (code and name); a    *)
(* file matching no rule is skipped without error and adds no record to    *)
(* any index.                                                              *)
C11_IslandRuleFirst == IndexFollows(IslandFirstOrder)

\* a returned load of a file matching both the village and the island rule
\* and of a file matching no rule
C11_Witness ==
    /\ load_pc = "returned"
    /\ ProcessedHealthy
    /\ \E i, j \in 1..Len(dir_files) :
            /\ dir_files[i].headers \in MixedHeaderSets
            /\ dir_files[j].headers = {"id", "label"}
    /\ records["island"] # <<>>
    /\ records["village"] = <<>>

-----------------------------------------------------------------------------
(* The children lists *)

IsChildren == result.op = "get_children"

\* the records of the area added with parent code p, in insertion order
AddedWith(a, p) == SelectSeq(records[a], LAMBDA r : ParentOf(a, r) = p)

(* C12: after any sequence of add_area_record and add_island_record calls  *)
(* the children list of a parent code p holds exactly the records of the   *)
(* area type added with parent code p, in insertion order; a record with   *)
(* an empty parent code is in no children list, and a parent code without  *)
(* children gives an empty list.                                           *)
C12_ChildrenInInsertionOrder ==
    /\ \A a \in Areas \ {"province"} :
            /\ \A p \in QueryParents \ {E} :
                    get_children(a, p) = AddedWith(a, p)
            /\ \A p \in DOMAIN hierarchy[a] :
                    \A i \in 1..Len(hierarchy[a][p]) :
                        ParentOf(a, hierarchy[a][p][i]) # E
            /\ get_children(a, E) = <<>>
    /\ IsChildren =>
            result.value = IF result.parent_code = E THEN <<>>
                           ELSE AddedWith(area, result.parent_code)

\* the children of a parent with two children are read from an index that
\* also holds a record without parent and a record of another parent
C12_Witness ==
    /\ IsChildren
    /\ Len(result.value) = 2
    /\ result.value[1] # result.value[2]
    /\ \E i, j \in Positions(area) :
            /\ ParentOf(area, records[area][i]) = E
            /\ ParentOf(area, records[area][j])
                    \notin {E, result.parent_code}

\* a parent code without children is asked for
C12_WitnessNoChildren ==
    /\ IsChildren
    /\ result.parent_code = C9
    /\ records[area] # <<>>
    /\ result.value = <<>>

-----------------------------------------------------------------------------
(* The structural validator (validator.py) *)

Min(x, y) == IF x <= y THEN x ELSE y

\* the characters of the classes the patterns of utils.py use; the degree
\* sign is the one-character string Deg
Digits == {"0", "1", "2", "3", "4", "5", "6", "7", "8", "9"}
Whitespace == {" ", "\n", "\t"}
Hemispheres == {"N", "S", "E", "W", "U", "T", "B",
                "n", "s", "e", "w", "u", "t", "b"}
Deg == "deg"

\* one item of a pattern: lo to hi characters of the class cls
Item(cls, lo, hi) == [cls |-> cls, lo |-> lo, hi |-> hi]

\* \d{n}
DigitRun(n) == Item(Digits, n, n)

\* \.
Dot == Item({"."}, 1, 1)

\* the items consume the whole of s
RECURSIVE MatchItems(_, _)
MatchItems(items, s) ==
    IF items = <<>> THEN s = <<>>
    ELSE LET it == Head(items)
         IN  \E k \in it.lo..Min(it.hi, Len(s)) :
                /\ \A i \in 1..k : s[i] \in it.cls
                /\ MatchItems(Tail(items), SubSeq(s, k + 1, Len(s)))

\* pattern.match(s) with pattern ^items$: $ matches at the end of s and
\* before a newline that ends s
re_match(items, s) ==
    \/ MatchItems(items, s)
    \/ /\ s # <<>>
       /\ s[Len(s)] = "\n"
       /\ MatchItems(items, SubSeq(s, 1, Len(s) - 1))

PROVINCE_CODE_LENGTH == 2
REGENCY_CODE_LENGTH == 5
DISTRICT_CODE_LENGTH == 8

RE_PROVINCE_CODE == <<DigitRun(2)>>
RE_REGENCY_CODE == <<DigitRun(2), Dot, DigitRun(2)>>
RE_DISTRICT_CODE == <<DigitRun(2), Dot, DigitRun(2), Dot, DigitRun(2)>>
RE_VILLAGE_CODE ==
    <<DigitRun(2), Dot, DigitRun(2), Dot, DigitRun(2), Dot, DigitRun(4)>>
RE_ISLAND_CODE == <<DigitRun(2), Dot, DigitRun(2), Dot, DigitRun(5)>>

\* \d{1,3}deg\d{1,2}'\d{1,2}(?:\.\d+)?"?\s+[NSEWUTB]+, ignoring case, with
\* and without the fraction
CoordinateHalf(fraction) ==
    <<Item(Digits, 1, 3), Item({Deg}, 1, 1), Item(Digits, 1, 2),
      Item({"'"}, 1, 1), Item(Digits, 1, 2)>>
    \o (IF fraction THEN <<Dot, Item(Digits, 1, 99)>> ELSE <<>>)
    \o <<Item({"\""}, 0, 1), Item(Whitespace, 1, 99),
         Item(Hemispheres, 1, 99)>>

\* RE_COORDINATE.match(s)
re_match_coordinate(s) ==
    \E f1, f2 \in BOOLEAN :
        re_match(CoordinateHalf(f1) \o <<Item(Whitespace, 1, 99)>>
                    \o CoordinateHalf(f2), s)

\* the message is a text made of the other fields and is left out
ValidationError(row_number, column, value, error_type) ==
    [row_number |-> row_number, column |-> column, value |-> value,
     error_type |-> error_type]

\* value.strip() is empty
IsBlank(value) == \A i \in 1..Len(value) : value[i] \in Whitespace

\* each check gives the list of the errors it found: none or one
validate_code_length(code, expected_length, row_num, column) ==
    IF Len(code) # expected_length
    THEN <<ValidationError(row_num, column, code, "invalid_code_length")>>
    ELSE <<>>

validate_code_numeric(code, row_num, column) ==
    IF ~(code # <<>> /\ \A i \in 1..Len(code) : code[i] \in Digits)
    THEN <<ValidationError(row_num, column, code, "invalid_code_format")>>
    ELSE <<>>

validate_code_pattern(code, pattern, row_num, column) ==
    IF ~re_match(pattern, code)
    THEN <<ValidationError(row_num, column, code, "invalid_code_format")>>
    ELSE <<>>

validate_not_empty(value, row_num, column) ==
    IF IsBlank(value)
    THEN <<ValidationError(row_num, column, value, "empty_value")>>
    ELSE <<>>

validate_parent_code_prefix(code, parent_code, parent_length, row_num, parent_column) ==
    LET expected_prefix == SubSeq(code, 1, Min(parent_length, Len(code)))
    IN  IF parent_code # expected_prefix
        THEN <<ValidationError(row_num, parent_column, parent_code,
                               "invalid_parent_code")>>
        ELSE <<>>

validate_boolean(value, row_num, column) ==
    IF value \notin {Zero, One}
    THEN <<ValidationError(row_num, column, value, "invalid_boolean")>>
    ELSE <<>>

\* ProvinceValidator.validate_row
ProvinceValidator_validate_row(row, row_num) ==
    LET code == Get(row, "code")
        name == Get(row, "name")
        empty == validate_not_empty(code, row_num, "code")
    IN  (IF empty # <<>> THEN empty
         ELSE validate_code_length(code, PROVINCE_CODE_LENGTH, row_num,
                                   "code")
              \o validate_code_numeric(code, row_num, "code"))
        \o validate_not_empty(name, row_num, "name")

\* the validate_row of RegencyValidator, DistrictValidator and
\* VillageValidator: the same checks with the patterns, the parent column
\* and the parent length of the area
ChildValidator_validate_row(row, row_num, code_pattern, parent_column, parent_pattern, parent_length) ==
    LET code == Get(row, "code")
        parent_code == Get(row, parent_column)
        name == Get(row, "name")
        empty == validate_not_empty(code, row_num, "code")
        parent_empty == validate_not_empty(parent_code, row_num,
                                           parent_column)
        parent_format == validate_code_pattern(parent_code, parent_pattern,
                                               row_num, parent_column)
    IN  (IF empty # <<>> THEN empty
         ELSE validate_code_pattern(code, code_pattern, row_num, "code"))
        \o (IF parent_empty # <<>> THEN parent_empty
            ELSE IF parent_format # <<>> THEN parent_format
            ELSE IF code # <<>> /\ re_match(code_pattern, code)
            THEN validate_parent_code_prefix(code, parent_code,
                        parent_length, row_num, parent_column)
            ELSE <<>>)
        \o validate_not_empty(name, row_num, "name")

\* the parent check left out
RegencyValidator_no_parent_check(row, row_num) ==
    LET code == Get(row, "code")
        parent_code == Get(row, "province_code")
        empty == validate_not_empty(code, row_num, "code")
        parent_empty == validate_not_empty(parent_code, row_num,
                                           "province_code")
    IN  (IF empty # <<>> THEN empty
         ELSE validate_code_pattern(code, RE_REGENCY_CODE, row_num, "code"))
        \o (IF parent_empty # <<>> THEN parent_empty
            ELSE validate_code_pattern(parent_code, RE_PROVINCE_CODE,
                                       row_num, "province_code"))
        \o validate_not_empty(Get(row, "name"), row_num, "name")

RegencyValidator_validate_row(row, row_num) ==
    ChildValidator_validate_row(row, row_num, RE_REGENCY_CODE,
        "province_code", RE_PROVINCE_CODE, PROVINCE_CODE_LENGTH)

DistrictValidator_validate_row(row, row_num) ==
    ChildValidator_validate_row(row, row_num, RE_DISTRICT_CODE,
        "regency_code", RE_REGENCY_CODE, REGENCY_CODE_LENGTH)

VillageValidator_validate_row(row, row_num) ==
    ChildValidator_validate_row(row, row_num, RE_VILLAGE_CODE,
        "district_code", RE_DISTRICT_CODE, DISTRICT_CODE_LENGTH)

\* IslandValidator.validate_row
IslandValidator_validate_row(row, row_num) ==
    LET code == Get(row, "code")
        regency_code == Get(row, "regency_code")
        coordinate == Get(row, "coordinate")
        empty == validate_not_empty(code, row_num, "code")
        coordinate_empty == validate_not_empty(coordinate, row_num,
                                               "coordinate")
    IN  (IF empty # <<>> THEN empty
         ELSE IF ~re_match(RE_ISLAND_CODE, code)
         THEN <<ValidationError(row_num, "code", code,
                                "invalid_code_format")>>
         ELSE <<>>)
        \o (IF regency_code # <<>>
            THEN validate_code_pattern(regency_code, RE_REGENCY_CODE,
                                       row_num, "regency_code")
            ELSE <<>>)
        \o (IF coordinate_empty # <<>> THEN coordinate_empty
            ELSE IF ~re_match_coordinate(coordinate)
            THEN <<ValidationError(row_num, "coordinate", coordinate,
                                   "invalid_coordinate")>>
            ELSE <<>>)
        \o validate_boolean(Get(row, "is_populated"), row_num,
                            "is_populated")
        \o validate_boolean(Get(row, "is_outermost_small"), row_num,
                            "is_outermost_small")
        \o validate_not_empty(Get(row, "name"), row_num, "name")

\* get_validator(area).validate_row(row, row_num)
validate_row(a, row, row_num) ==
    CASE a = "province" -> ProvinceValidator_validate_row(row, row_num)
      [] a = "regency" -> RegencyValidator_validate_row(row, row_num)
      [] a = "district" -> DistrictValidator_validate_row(row, row_num)
      [] a = "village" -> VillageValidator_validate_row(row, row_num)
      [] a = "island" -> IslandValidator_validate_row(row, row_num)

\* RowValidator.expected_headers
expected_headers(a) ==
    CASE a = "province" -> <<"code", "name">>
      [] a = "regency" -> <<"code", "province_code", "name">>
      [] a = "district" -> <<"code", "regency_code", "name">>
      [] a = "village" -> <<"code", "district_code", "name">>
      [] a = "island" -> <<"code", "regency_code", "coordinate",
                           "is_populated", "is_outermost_small", "name">>

\* the codes of the rows given to validate_row
ValidatedCodes(a) ==
    CASE a = "province" ->
            {<<"1", "1">>,
             <<"1", "2">>,
             <<"1">>,
             <<"1", "a">>,
             <<>>,
             <<"1", "1", "\n">>}
      [] a = "regency" ->
            {<<"1", "1", ".", "0", "1">>,
             <<"1", "2", ".", "0", "1">>,
             <<"1", "1", "0", "1">>,
             <<"1", "1", ".", "0", "0", "1">>,
             <<>>,
             <<" ">>,
             <<"1", "1", ".", "0", "1", "\n">>}
      [] a = "district" ->
            {<<"1", "1", ".", "0", "1", ".", "0", "2">>,
             <<"1", "1", ".", "0", "1", "0", "2">>,
             <<>>,
             <<"1", "1", ".", "0", "1", ".", "0", "2", "\n">>}
      [] a = "village" ->
            {<<"1", "1", ".", "0", "1", ".", "0", "2", ".", "2", "0", "0", "1">>,
             <<"1", "1", ".", "0", "1", ".", "0", "2", ".", "2", "0", "1">>,
             <<>>}
      [] a = "island" ->
            {<<"1", "1", ".", "0", "1", ".", "4", "0", "0", "0", "1">>,
             <<"1", "2", ".", "0", "0", ".", "4", "0", "0", "0", "1">>,
             <<"1", "1", ".", "0", "1", "4", "0", "0", "0", "1">>,
             <<>>}

\* the parent codes of the rows given to validate_row
ValidatedParents(a) ==
    CASE a = "regency" -> ValidatedCodes("province")
      [] a = "district" ->
            {<<"1", "1", ".", "0", "1">>,
             <<"1", "1", ".", "0", "2">>,
             <<"1", "1", "0", "1">>,
             <<>>}
      [] a = "village" ->
            {<<"1", "1", ".", "0", "1", ".", "0", "2">>,
             <<"1", "1", ".", "0", "1", ".", "0", "3">>,
             <<"1", "1", ".", "0", "1", "0", "2">>,
             <<>>}
      [] a = "island" ->
            {<<>>,
             <<"1", "1", ".", "0", "1">>,
             <<"1", "2", ".", "0", "1">>,
             <<"1", "1", "0", "1">>}

ValidatedNames ==
    {<<"A">>,
     <<>>,
     <<" ">>}

Coordinates ==
    {<<"1", Deg, "2", "'", "3", " ", "N", " ", "4", Deg, "5", "'", "6", ".", "7", "\"", " ", "E">>,
     <<"x">>,
     <<>>}

Flags ==
    {<<"0">>,
     <<"1">>,
     <<"x">>,
     <<>>}

\* the rows of an area given to validate_row
ValidatedRows(a) ==
    CASE a = "province" ->
            {[code |-> c, name |-> n] :
                c \in ValidatedCodes(a), n \in ValidatedNames}
      [] a = "island" ->
            {[code |-> c, regency_code |-> p, coordinate |-> co,
              is_populated |-> ip, is_outermost_small |-> One,
              name |-> <<"A">>] :
                c \in ValidatedCodes(a), p \in ValidatedParents(a),
                co \in Coordinates, ip \in Flags}
      [] OTHER ->
            {[k \in {"code", ParentColumn(a), "name"} |->
                CASE k = "code" -> c [] k = "name" -> n [] OTHER -> p] :
                c \in ValidatedCodes(a), p \in ValidatedParents(a),
                n \in ValidatedNames}

\* get_validator(area): the row validators hold no state
InitRow ==
    /\ area \in Areas
    /\ confidence_threshold = 80
    /\ ambiguity_threshold = 5
    /\ EmptyIndex
    /\ result = NoResult
    /\ NoDirectory
    /\ NoValidation
    /\ NoNormalizeCsv
    /\ NoLater

\* validator.validate_row(row, 2)
ValidateRow ==
    /\ result = NoResult
    /\ \E row \in ValidatedRows(area) :
            result' = [op |-> "validate_row", row |-> row,
                       errors |-> validate_row(area, row, 2)]
    /\ UNCHANGED <<configVars, indexVars, loadVars, validateVars,
                   reportVars, laterVars>>

NextRow == ValidateRow

SpecRow == InitRow /\ [][NextRow]_vars

IsValidated == result.op = "validate_row"

\* the errors of a kind that validate_row gave for a column
ErrorsOn(column, error_type) ==
    SelectSeq(result.errors,
              LAMBDA e : e.column = column /\ e.error_type = error_type)

\* s is n digits
IsDigits(s, n) == Len(s) = n /\ \A i \in 1..n : s[i] \in Digits

\* NN.NN: two digits, a dot, two digits
IsRegencyCode(s) ==
    /\ Len(s) = 5
    /\ IsDigits(SubSeq(s, 1, 2), 2)
    /\ s[3] = "."
    /\ IsDigits(SubSeq(s, 4, 5), 2)

(* C14: for every regency row a code of the form NN.NN gives no            *)
(* code-format error, and a code of any other form gives exactly one       *)
(* invalid_code_format error, on the column code.                          *)
C14_RegencyCodeFormat ==
    (IsValidated /\ area = "regency") =>
        LET format_errors ==
                SelectSeq(result.errors,
                          LAMBDA e : e.error_type = "invalid_code_format"
                                     /\ e.column = "code")
        IN  IF IsRegencyCode(result.row.code)
            THEN format_errors = <<>>
            ELSE Len(format_errors) = 1

\* the areas whose rows carry the code of their parent as a prefix
ChildAreas == {"regency", "district", "village"}

\* the leading segments of a code: as many characters as the code of the
\* parent level has
LeadingSegments(a, code) ==
    LET n == CASE a = "regency" -> 2
               [] a = "district" -> 5
               [] a = "village" -> 8
    IN  SubSeq(code, 1, Min(n, Len(code)))

ParentErrors == ErrorsOn(ParentColumn(area), "invalid_parent_code")

ParentMatches ==
    result.row[ParentColumn(area)] = LeadingSegments(area, result.row.code)

\* validate_row found the code and the parent field present and well-formed
FormatsAccepted ==
    \A i \in 1..Len(result.errors) :
        ~ /\ result.errors[i].column \in {"code", ParentColumn(area)}
          /\ result.errors[i].error_type
                \in {"empty_value", "invalid_code_format"}

(* C15 as stated: for every regency, district and village row validate_row *)
(* emits invalid_parent_code on the parent column whenever the parent      *)
(* field differs from the leading segments of the code of the row, and     *)
(* none when they are equal.                                               *)
C15_ParentPrefixAlwaysChecked ==
    (IsValidated /\ area \in ChildAreas) =>
        IF ParentMatches THEN ParentErrors = <<>> ELSE ParentErrors # <<>>

(* C15 amended: for every regency, district and village row whose code and *)
(* parent field both pass their own presence and format checks,            *)
(* validate_row emits exactly one invalid_parent_code error on the parent  *)
(* column when the parent field differs from the leading segments of the   *)
(* code, and none when they are equal; when the code or the parent field   *)
(* is empty or malformed that field gets its empty_value or                *)
(* invalid_code_format error and no invalid_parent_code is emitted.        *)
C15_ParentPrefixOfWellFormed ==
    (IsValidated /\ area \in ChildAreas) =>
        /\ FormatsAccepted =>
                IF ParentMatches THEN ParentErrors = <<>>
                ELSE /\ Len(ParentErrors) = 1
                     /\ ParentErrors[1].value = result.row[ParentColumn(area)]
        /\ ~FormatsAccepted => ParentErrors = <<>>

\* a well-formed regency row under the wrong province
C15_Witness ==
    /\ IsValidated /\ area = "regency"
    /\ FormatsAccepted
    /\ ~ParentMatches
    /\ Len(ParentErrors) = 1

\* a well-formed district row under the wrong regency
C15_WitnessDistrict ==
    /\ IsValidated /\ area = "district"
    /\ FormatsAccepted
    /\ ~ParentMatches
    /\ Len(ParentErrors) = 1

\* NN.NN.NNNNN
IsIslandCode(s) ==
    /\ Len(s) = 11
    /\ IsDigits(SubSeq(s, 1, 2), 2)
    /\ s[3] = "."
    /\ IsDigits(SubSeq(s, 4, 5), 2)
    /\ s[6] = "."
    /\ IsDigits(SubSeq(s, 7, 11), 5)

MiddleSegment(code) == SubSeq(code, 4, 5)

\* the errors validate_row gave for the column regency_code
RegencyCodeErrors ==
    SelectSeq(result.errors, LAMBDA e : e.column = "regency_code")

(* C16: for an island row an empty regency_code is accepted without error  *)
(* when the middle segment of the code is 00 (12.00.40001), and is not     *)
(* accepted when the middle segment is anything else.                      *)
C16_EmptyRegencyOnlyForMiddle00 ==
    (/\ IsValidated /\ area = "island"
     /\ result.row.regency_code = E
     /\ IsIslandCode(result.row.code)) =>
        IF MiddleSegment(result.row.code) = <<"0", "0">>
        THEN RegencyCodeErrors = <<>>
        ELSE RegencyCodeErrors # <<>>

-----------------------------------------------------------------------------
(* validate_csv (validator.py) *)

\* the value csv.DictReader gives a column the line has no field for
Missing == <<"None">>

\* the area types whose files are validated
ValidatedAreas == {"province", "regency"}

\* the first line of a file: the expected headers, the same headers in
\* another order, and no header (the file is empty or its first line is)
HeaderRows(a) ==
    {expected_headers(a), <<>>}
    \cup (IF a = "province" THEN {<<"name", "code">>}
          ELSE {<<"code", "name", "province_code">>})

\* the lines after the first: a valid row, a row with two errors, a blank
\* line and a line with too few fields
LinePool(a) ==
    IF a = "province"
    THEN {<<<<"1", "1">>, <<"A">>>>, <<<<"1", "a", "b">>, <<>>>>, <<>>,
          <<<<"1", "1">>>>}
    ELSE {<<<<"1", "1", ".", "0", "1">>, <<"1", "1">>, <<"A">>>>,
          <<<<"1", "1", ".", "0", "1">>, <<"1", "2">>, <<>>>>, <<>>,
          <<<<"1", "1", ".", "0", "1">>>>}

ChunkSizes == {1, 2, 1000}

\* csv.DictReader: the row of a line, keyed by the field names
DictRow(fieldnames, line) ==
    [k \in {fieldnames[i] : i \in 1..Len(fieldnames)} |->
        LET i == CHOOSE j \in 1..Len(fieldnames) :
                    /\ fieldnames[j] = k
                    /\ \A h \in 1..Len(fieldnames) :
                            fieldnames[h] = k => h <= j
        IN  IF i <= Len(line) THEN line[i] ELSE Missing]

\* csv.DictReader skips the lines without a field
DataLines(file) == SelectSeq(file.lines, LAMBDA l : l # <<>>)

\* the k-th row the reader yields
DataRow(file, k) == DictRow(file.fieldnames, DataLines(file)[k])

\* validate_row calls strip() or a pattern on None: AttributeError or
\* TypeError
validate_row_raises(a, row) ==
    \E k \in DOMAIN row :
        /\ row[k] = Missing
        /\ k \in {"code", "name", "coordinate"}
                \cup (IF a \in ChildAreas THEN {ParentColumn(a)} ELSE {})

\* RowValidator.validate_headers: value is the headers joined by commas,
\* kept as the list of the headers
validate_headers(a, headers) ==
    IF headers # expected_headers(a)
    THEN <<ValidationError(0, "headers", headers, "invalid_headers")>>
    ELSE <<>>

\* report.invalid_rows = len(invalid_row_numbers); report.valid_rows =
\* report.total_rows - report.invalid_rows
finalize(report, invalid) ==
    [report EXCEPT !.invalid_rows = Cardinality(invalid),
                   !.valid_rows = report.total_rows - Cardinality(invalid)]

\* validate_csv(file_path, area, chunk_size=chunk_size) is called
InitValidate ==
    /\ area \in ValidatedAreas
    /\ confidence_threshold = 80
    /\ ambiguity_threshold = 5
    /\ EmptyIndex
    /\ result = NoResult
    /\ NoDirectory
    /\ NoNormalizeCsv
    /\ NoLater
    /\ input_file \in
            {[fieldnames |-> h, lines |-> ls] :
                h \in HeaderRows(area),
                ls \in SeqsUpTo(LinePool(area), MaxLines)}
    /\ chunk_size \in ChunkSizes
    /\ validation_report = NewValidationReport
    /\ invalid_row_numbers = {}
    /\ rows_in_chunk = 0
    /\ validate_pc = "start"
    /\ validate_pos = 0
    /\ yielded = <<>>

\* up to the loop: the headers are validated when the reader has any
ValidateHeaders ==
    /\ validate_pc = "start"
    /\ LET header_error ==
            IF input_file.fieldnames # <<>>
            THEN validate_headers(area, input_file.fieldnames)
            ELSE <<>>
           report == [validation_report EXCEPT
                        !.errors = @ \o header_error]
       IN  /\ validation_report' = report
           /\ yielded' = IF header_error # <<>> THEN Append(yielded, report)
                         ELSE yielded
           /\ validate_pc' = IF header_error # <<>> THEN "header_yielded"
                             ELSE "rows"
    /\ UNCHANGED <<configVars, indexVars, result, loadVars, reportVars,
                   input_file, chunk_size, invalid_row_numbers,
                   rows_in_chunk, validate_pos, laterVars>>

\* one iteration of the loop over the rows
ValidateDataRow ==
    /\ validate_pc = "rows"
    /\ validate_pos < Len(DataLines(input_file))
    /\ LET row_num == validate_pos + 2
           row == DataRow(input_file, validate_pos + 1)
           counted == [validation_report EXCEPT !.total_rows = @ + 1]
       IN  IF validate_row_raises(area, row)
           THEN /\ validation_report' = counted
                /\ validate_pc' = "raised"
                /\ UNCHANGED <<invalid_row_numbers, rows_in_chunk, yielded,
                   laterVars>>
           ELSE LET errors == validate_row(area, row, row_num)
                    invalid == IF errors # <<>>
                               THEN invalid_row_numbers \cup {row_num}
                               ELSE invalid_row_numbers
                    report == [counted EXCEPT !.errors = @ \o errors]
                    full == rows_in_chunk + 1 >= chunk_size
                IN  /\ invalid_row_numbers' = invalid
                    /\ validation_report' =
                            IF full THEN finalize(report, invalid)
                            ELSE report
                    /\ yielded' =
                            IF full
                            THEN Append(yielded, finalize(report, invalid))
                            ELSE yielded
                    /\ rows_in_chunk' = IF full THEN 0
                                        ELSE rows_in_chunk + 1
                    /\ validate_pc' = "rows"
    /\ validate_pos' = validate_pos + 1
    /\ UNCHANGED <<configVars, indexVars, result, loadVars, reportVars,
                   input_file, chunk_size, laterVars>>

\* the reader is exhausted: the final report
ValidateFinal ==
    /\ validate_pc = "rows"
    /\ validate_pos = Len(DataLines(input_file))
    /\ validation_report' = finalize(validation_report, invalid_row_numbers)
    /\ yielded' = Append(yielded, validation_report')
    /\ validate_pc' = "final_yielded"
    /\ UNCHANGED <<configVars, indexVars, result, loadVars, reportVars,
                   input_file, chunk_size, invalid_row_numbers,
                   rows_in_chunk, validate_pos, laterVars>>

\* the generator is resumed after its last yield and returns
ValidateReturn ==
    /\ validate_pc \in {"header_yielded", "final_yielded"}
    /\ validate_pc' = "done"
    /\ UNCHANGED <<configVars, indexVars, result, loadVars, reportVars,
                   input_file, chunk_size, validation_report,
                   invalid_row_numbers, rows_in_chunk, validate_pos,
                   yielded, laterVars>>

NextValidate ==
    \/ ValidateHeaders
    \/ ValidateDataRow
    \/ ValidateFinal
    \/ ValidateReturn

SpecValidate == InitValidate /\ [][NextValidate]_vars

HeadersMatch == input_file.fieldnames = expected_headers(area)

\* the report of a header mismatch: one error and no row
IsHeaderReport(r) ==
    /\ Len(r.errors) = 1
    /\ r.errors[1].error_type = "invalid_headers"
    /\ r.errors[1].row_number = 0
    /\ r.total_rows = 0 /\ r.valid_rows = 0 /\ r.invalid_rows = 0

(* C13: validate_csv compares the header row of the file with the expected *)
(* header sequence of the area, in order; on any mismatch it yields        *)
(* exactly one report with exactly one error (invalid_headers, row_number  *)
(* 0), validates no data row and stops.                                    *)
C13_HeaderMismatchStops ==
    ~HeadersMatch =>
        /\ validate_pos = 0
        /\ validation_report.total_rows = 0
        /\ validate_pc \in {"start", "header_yielded", "done"}
        /\ validate_pc \in {"header_yielded", "done"} =>
                /\ Len(yielded) = 1
                /\ IsHeaderReport(yielded[1])

\* the errors of the first n data rows, in row order
RECURSIVE ErrorsOfRows(_)
ErrorsOfRows(n) ==
    IF n = 0 THEN <<>>
    ELSE ErrorsOfRows(n - 1)
            \o validate_row(area, DataRow(input_file, n), n + 1)

\* the rows among the first n data rows that have an error
InvalidAmong(n) ==
    {k \in 1..n : validate_row(area, DataRow(input_file, k), k + 1) # <<>>}

\* the i-th report is the last one of a call that is over
IsLast(i) ==
    i = Len(yielded) /\ validate_pc \in {"final_yielded", "done", "raised"}

(* C17: every report validate_csv yields has valid_rows + invalid_rows =   *)
(* total_rows, with total_rows the number of data rows read so far and     *)
(* invalid_rows the number of rows, not errors, with at least one error;   *)
(* the last report covers all the data rows of the file and lists the      *)
(* errors in row order.                                                    *)
C17_ReportsCoverTheFile ==
    /\ \A i \in 1..Len(yielded) :
        LET r == yielded[i]
        IN  /\ r.valid_rows + r.invalid_rows = r.total_rows
            /\ r.valid_rows >= 0
            /\ r.total_rows <= Len(DataLines(input_file))
            /\ r.invalid_rows = Cardinality(InvalidAmong(r.total_rows))
            /\ ~IsHeaderReport(r) => r.errors = ErrorsOfRows(r.total_rows)
            /\ (IsLast(i) /\ ~IsHeaderReport(r)) =>
                    r.total_rows = Len(DataLines(input_file))
            /\ (~IsLast(i) /\ ~IsHeaderReport(r)) =>
                    r.total_rows = i * chunk_size
    /\ (yielded # <<>> /\ validate_pc # "raised" /\ rows_in_chunk = 0) =>
            yielded[Len(yielded)].total_rows = validate_pos
    /\ validate_pc \in {"done", "raised"} => yielded # <<>>

-----------------------------------------------------------------------------
(* normalize_csv and the normalization report (normalizer.py) *)

\* NormalizationReport.add without the last branch: a row that was not
\* found is not counted
report_add_three_counters(report, row_norm) ==
    LET appended == [report EXCEPT
                        !.normalizations = Append(@, row_norm),
                        !.total_rows = @ + 1]
    IN  IF row_norm.status = "valid"
        THEN [appended EXCEPT !.valid_rows = @ + 1]
        ELSE IF row_norm.status = "corrected"
        THEN [appended EXCEPT !.corrected_rows = @ + 1]
        ELSE IF row_norm.status = "ambiguous"
        THEN [appended EXCEPT !.ambiguous_rows = @ + 1]
        ELSE appended

\* NormalizationReport.add
report_add(report, row_norm) ==
    LET appended == [report EXCEPT
                        !.normalizations = Append(@, row_norm),
                        !.total_rows = @ + 1]
    IN  IF row_norm.status = "valid"
        THEN [appended EXCEPT !.valid_rows = @ + 1]
        ELSE IF row_norm.status = "corrected"
        THEN [appended EXCEPT !.corrected_rows = @ + 1]
        ELSE IF row_norm.status = "ambiguous"
        THEN [appended EXCEPT !.ambiguous_rows = @ + 1]
        ELSE IF row_norm.status = "not_found"
        THEN [appended EXCEPT !.not_found_rows = @ + 1]
        ELSE appended

\* the loop body with a row that is not found taking the status of the row
\* before it
normalize_csv_step_sticky(report, row, row_num, a) ==
    LET row_norm == normalize_row(row, row_num, a)
        before == report.normalizations
    IN  report_add(report,
            IF row_norm.status = "not_found" /\ before # <<>>
            THEN [row_norm EXCEPT !.status = before[Len(before)].status]
            ELSE row_norm)

\* the body of the loop of normalize_csv
normalize_csv_step(report, row, row_num, a) ==
    report_add(report, normalize_row(row, row_num, a))

\* the loop of normalize_csv from the k-th data row on
RECURSIVE normalize_csv_from(_, _, _, _)
normalize_csv_from(report, rows, k, a) ==
    IF rows = <<>> THEN report
    ELSE normalize_csv_from(normalize_csv_step(report, Head(rows), k + 1, a),
                            Tail(rows), k + 1, a)

\* normalize_csv over the rows of a file
normalize_csv(rows, a) ==
    normalize_csv_from(NewNormalizationReport, rows, 1, a)

\* str(n) of a natural number
DigitChar(d) ==
    CASE d = 0 -> "0" [] d = 1 -> "1" [] d = 2 -> "2" [] d = 3 -> "3"
      [] d = 4 -> "4" [] d = 5 -> "5" [] d = 6 -> "6" [] d = 7 -> "7"
      [] d = 8 -> "8" [] d = 9 -> "9"

RECURSIVE ToDecimal(_)
ToDecimal(n) ==
    IF n < 10 THEN <<DigitChar(n)>>
    ELSE ToDecimal(n \div 10) \o <<DigitChar(n % 10)>>

\* f"{confidence:.1f}": the score rounded to tenths, a tie to the even tenth
FormatOneDecimal(score) ==
    LET q == (10 * score.num) \div score.den
        r == (10 * score.num) % score.den
        tenths == IF 2 * r > score.den THEN q + 1
                  ELSE IF 2 * r = score.den THEN q + (q % 2)
                  ELSE q
    IN  ToDecimal(tenths \div 10) \o <<".", DigitChar(tenths % 10)>>

\* NormalizationReport._find_column: the first column of the row, in the
\* order of the headers, that holds the value
find_column(a, row, value) ==
    LET headers == expected_headers(a)
        hits == {i \in 1..Len(headers) :
                    headers[i] \in DOMAIN row /\ row[headers[i]] = value}
    IN  IF hits = {} THEN "unknown"
        ELSE headers[CHOOSE i \in hits : \A j \in hits : i <= j]

ReportHeader ==
    <<"row_number", "status", "column", "original", "suggested",
      "confidence", "reason">>

NoMatchReason == <<"No matching ground truth found">>

\* the lines of a row with a placeholder line for every row without
\* suggestions, the valid ones included
write_report_rows_every_row(a, row_norm) ==
    IF row_norm.suggestions # <<>>
    THEN [i \in 1..Len(row_norm.suggestions) |->
            LET sug == row_norm.suggestions[i]
            IN  <<ToDecimal(row_norm.row_number), row_norm.status,
                  find_column(a, row_norm.original, sug.original),
                  sug.original, sug.suggested,
                  FormatOneDecimal(sug.confidence), sug.reason>>]
    ELSE <<<<ToDecimal(row_norm.row_number), row_norm.status, "", E, E, E,
             NoMatchReason>>>>

\* the lines write_report_csv writes for one row
write_report_rows(a, row_norm) ==
    IF row_norm.suggestions # <<>>
    THEN [i \in 1..Len(row_norm.suggestions) |->
            LET sug == row_norm.suggestions[i]
            IN  <<ToDecimal(row_norm.row_number), row_norm.status,
                  find_column(a, row_norm.original, sug.original),
                  sug.original, sug.suggested,
                  FormatOneDecimal(sug.confidence), sug.reason>>]
    ELSE IF row_norm.status # "valid"
    THEN <<<<ToDecimal(row_norm.row_number), row_norm.status, "", E, E, E,
             NoMatchReason>>>>
    ELSE <<>>

RECURSIVE write_report_lines(_, _)
write_report_lines(a, normalizations) ==
    IF normalizations = <<>> THEN <<>>
    ELSE write_report_rows(a, Head(normalizations))
            \o write_report_lines(a, Tail(normalizations))

\* NormalizationReport.write_report_csv: the lines of the file
write_report_csv(a, report) ==
    <<ReportHeader>> \o write_report_lines(a, report.normalizations)

\* csv.DictWriter._dict_to_list: the fields of the row that are not in the
\* fieldnames (extrasaction is "raise")
wrong_fields(fieldnames, rowdict) ==
    DOMAIN rowdict \ {fieldnames[i] : i \in 1..Len(fieldnames)}

\* csv.DictWriter._dict_to_list: the values of the row in the order of the
\* fieldnames, the empty string (restval) for a column the row lacks
dict_to_list(fieldnames, rowdict) ==
    [i \in 1..Len(fieldnames) |-> Get(rowdict, fieldnames[i])]

\* the loop of write_corrected_csv: a row with a field outside the headers
\* raises ValueError and leaves the lines written so far
RECURSIVE write_corrected_rows(_, _, _)
write_corrected_rows(headers, normalizations, lines) ==
    IF normalizations = <<>>
    THEN [op |-> "write_corrected_csv", headers |-> headers,
          lines |-> lines, raised |-> "none"]
    ELSE IF wrong_fields(headers, Head(normalizations).corrected) # {}
    THEN [op |-> "write_corrected_csv", headers |-> headers,
          lines |-> lines, raised |-> "ValueError"]
    ELSE write_corrected_rows(headers, Tail(normalizations),
            Append(lines,
                   dict_to_list(headers, Head(normalizations).corrected)))

\* NormalizationReport.write_corrected_csv: writeheader, then the rows
write_corrected_csv(report, headers) ==
    write_corrected_rows(headers, report.normalizations, <<headers>>)

\* the header lists a caller gives to write_corrected_csv: the columns of
\* the area (cli._get_headers_for_area), the same in another order, with
\* one more column, and without the name
HeaderLists(a) ==
    LET headers == expected_headers(a)
    IN  {headers,
         [i \in 1..Len(headers) |-> headers[Len(headers) + 1 - i]],
         Append(headers, "note"),
         SubSeq(headers, 1, Len(headers) - 1)}

\* an empty GroundTruthIndex
NewIndex ==
    [records |-> [a \in Areas |-> <<>>],
     code_to_record |-> [a \in Areas |-> EmptyDict],
     idx_names |-> [a \in Areas |-> <<>>],
     idx_codes |-> [a \in Areas |-> <<>>],
     hierarchy |-> [a \in Areas |-> EmptyDict]]

\* the reference index of a run: two records of the same parent
ReferenceIndex(a) ==
    IF a = "island"
    THEN add_island_record(
            add_island_record(NewIndex,
                IslandRecord(C1, <<"a", "b">>, P1, X, One, Zero)),
            IslandRecord(C2, <<"c">>, P1, E, E, E))
    ELSE add_area_record(
            add_area_record(NewIndex, a, AreaRecord(C1, <<"a", "b">>, P1)),
            a, AreaRecord(C2, <<"A", "b">>, P1))

\* the areas whose files are normalized
NormalizedAreas == {"regency", "island"}

\* the data rows of the input file
CsvRows(a) ==
    {r \in Rows(a) :
        /\ r.code \in {C1, C9}
        /\ r[ParentColumn(a)] = P1
        /\ r.name # E
        /\ a = "island" => r.coordinate = X}
    \cup {Put(r, "note", X) :
            r \in {r \in Rows(a) : /\ r.code = C1
                                   /\ r[ParentColumn(a)] = P1
                                   /\ r.name = <<"a", "b">>
                                   /\ a = "island" => r.coordinate = X}}

\* normalize_csv(file_path, area, ground_truth) is called
InitNormalizeCsv ==
    /\ area \in NormalizedAreas
    /\ confidence_threshold = 80
    /\ ambiguity_threshold = 5
    /\ records = ReferenceIndex(area).records
    /\ code_to_record = ReferenceIndex(area).code_to_record
    /\ idx_names = ReferenceIndex(area).idx_names
    /\ idx_codes = ReferenceIndex(area).idx_codes
    /\ hierarchy = ReferenceIndex(area).hierarchy
    /\ result = NoResult
    /\ NoDirectory
    /\ NoValidation
    /\ input_rows \in SeqsUpTo(CsvRows(area), MaxRows)
    /\ normalization_report = NewNormalizationReport
    /\ normalize_pc = "rows"
    /\ normalize_pos = 0
    /\ report_csv = <<>>
    /\ corrected_csv = NoResult
    /\ NoLater

\* one iteration of the loop over the rows
NormalizeCsvRow ==
    /\ normalize_pc = "rows"
    /\ normalize_pos < Len(input_rows)
    /\ normalization_report' =
            normalize_csv_step(normalization_report,
                input_rows[normalize_pos + 1], normalize_pos + 2, area)
    /\ normalize_pos' = normalize_pos + 1
    /\ UNCHANGED <<configVars, indexVars, result, loadVars, validateVars,
                   input_rows, normalize_pc, report_csv, corrected_csv,
                   laterVars>>

\* the reader is exhausted: normalize_csv returns the report
NormalizeCsvReturn ==
    /\ normalize_pc = "rows"
    /\ normalize_pos = Len(input_rows)
    /\ normalize_pc' = "returned"
    /\ UNCHANGED <<configVars, indexVars, result, loadVars, validateVars,
                   input_rows, normalization_report, normalize_pos,
                   report_csv, corrected_csv, laterVars>>

\* report.write_report_csv(path)
WriteReportCsv ==
    /\ normalize_pc = "returned"
    /\ report_csv' = write_report_csv(area, normalization_report)
    /\ normalize_pc' = "written"
    /\ UNCHANGED <<configVars, indexVars, result, loadVars, validateVars,
                   input_rows, normalization_report, normalize_pos,
                   corrected_csv, laterVars>>

\* report.write_corrected_csv(path, headers)
WriteCorrectedCsv ==
    /\ normalize_pc \in {"returned", "written"}
    /\ corrected_csv = NoResult
    /\ \E headers \in HeaderLists(area) :
            corrected_csv' =
                write_corrected_csv(normalization_report, headers)
    /\ UNCHANGED <<configVars, indexVars, result, loadVars, validateVars,
                   input_rows, normalization_report, normalize_pc,
                   normalize_pos, report_csv, laterVars>>

NextNormalizeCsv ==
    \/ NormalizeCsvRow
    \/ NormalizeCsvReturn
    \/ WriteReportCsv
    \/ WriteCorrectedCsv

SpecNormalizeCsv == InitNormalizeCsv /\ [][NextNormalizeCsv]_vars

Statuses == {"valid", "corrected", "ambiguous", "not_found"}

\* the counter of a status
CounterOf(report, status) ==
    CASE status = "valid" -> report.valid_rows
      [] status = "corrected" -> report.corrected_rows
      [] status = "ambiguous" -> report.ambiguous_rows
      [] status = "not_found" -> report.not_found_rows

\* the number of the rows of the report that have the status
RowsWith(report, status) ==
    Cardinality({i \in 1..Len(report.normalizations) :
                    report.normalizations[i].status = status})

ReportSums ==
    LET r == normalization_report
    IN  /\ r.total_rows = r.valid_rows + r.corrected_rows
                            + r.ambiguous_rows + r.not_found_rows
        /\ r.total_rows = Len(r.normalizations)
        /\ \A st \in Statuses : CounterOf(r, st) = RowsWith(r, st)

\* a step that changes the report is one add
ReportAddStep ==
    LET old == normalization_report
        new == normalization_report'
    IN  new # old =>
            /\ new.total_rows = old.total_rows + 1
            /\ Len(new.normalizations) = Len(old.normalizations) + 1
            /\ SubSeq(new.normalizations, 1, Len(old.normalizations))
                    = old.normalizations
            /\ new.normalizations[Len(new.normalizations)]
                    = normalize_row(input_rows[normalize_pos + 1],
                                    normalize_pos + 2, area)
            /\ \E st \in Statuses :
                    /\ CounterOf(new, st) = CounterOf(old, st) + 1
                    /\ \A other \in Statuses \ {st} :
                            CounterOf(new, other) = CounterOf(old, other)

(* C18: after any sequence of NormalizationReport.add calls total_rows =   *)
(* valid_rows + corrected_rows + ambiguous_rows + not_found_rows =         *)
(* len(normalizations); each add raises total_rows and exactly one status  *)
(* counter by one, appends the row result at the end of normalizations     *)
(* and leaves the earlier entries as they were.                            *)
C18_ReportCountsEveryRowOnce == []ReportSums /\ [][ReportAddStep]_vars

\* three adds of three different statuses, the last one not_found
C18_Witness ==
    /\ normalize_pos = 3
    /\ normalization_report.total_rows = 3
    /\ normalization_report.normalizations[3].status = "not_found"
    /\ normalization_report.not_found_rows = 1
    /\ normalization_report.valid_rows = 1
    /\ normalization_report.ambiguous_rows = 1

\* what the reconciliation of a row gives, apart from the row number
Outcome(row_norm) ==
    [status |-> row_norm.status, corrected |-> row_norm.corrected,
     suggestions |-> row_norm.suggestions]

Counters(report) == [st \in Statuses |-> CounterOf(report, st)]

RECURSIVE LineOwners(_)
LineOwners(k) ==
    IF k = 0 THEN <<>>
    ELSE LET row_norm == normalization_report.normalizations[k]
         IN  LineOwners(k - 1)
                \o (IF row_norm.suggestions # <<>>
                    THEN [j \in 1..Len(row_norm.suggestions) |->
                            [row |-> k, sug |-> j]]
                    ELSE IF row_norm.status # "valid"
                    THEN <<[row |-> k, sug |-> 0]>>
                    ELSE <<>>)

(* C20: write_report_csv writes, after the fixed header, one line per      *)
(* suggestion of every processed row (rows in processing order,            *)
(* suggestions in their order), exactly one placeholder line for every row *)
(* without suggestions whose status is not valid, and no line for a valid  *)
(* row without suggestions.                                                *)
C20_ReportLines ==
    normalize_pc = "written" =>
        LET owners == LineOwners(Len(normalization_report.normalizations))
        IN  /\ report_csv[1] = ReportHeader
            /\ Len(report_csv) = 1 + Len(owners)
            /\ \A k \in 1..Len(owners) :
                LET line == report_csv[k + 1]
                    row_norm == normalization_report
                                    .normalizations[owners[k].row]
                IN  /\ line[1] = ToDecimal(owners[k].row + 1)
                    /\ line[2] = row_norm.status
                    /\ IF owners[k].sug = 0
                       THEN /\ line[3] = ""
                            /\ line[4] = E /\ line[5] = E /\ line[6] = E
                            /\ line[7] = NoMatchReason
                       ELSE LET sug == row_norm.suggestions[owners[k].sug]
                            IN  /\ line[4] = sug.original
                                /\ line[5] = sug.suggested
                                /\ line[7] = sug.reason
                                /\ line[3] # "unknown" =>
                                      row_norm.original[line[3]]
                                            = sug.original

\* the report of a valid row, a row that was not found and an ambiguous
\* row is written: the header, one placeholder line and two candidates
C20_Witness ==
    /\ normalize_pc = "written"
    /\ Len(input_rows) = 3
    /\ normalization_report.normalizations[1].status = "valid"
    /\ normalization_report.normalizations[1].suggestions = <<>>
    /\ normalization_report.normalizations[2].status = "not_found"
    /\ normalization_report.normalizations[3].status = "ambiguous"
    /\ Len(report_csv) = 4
    /\ report_csv[2][7] = NoMatchReason
    /\ report_csv[3][1] = <<"4">>

-----------------------------------------------------------------------------
(* The corrected-rows file *)

IsCorrectedCsv == corrected_csv.op = "write_corrected_csv"

\* the line holds the mapping: every column of the mapping is a column of
\* the header and the line has the mapping's value there
LineHolds(headers, line, mapping) ==
    /\ Len(line) = Len(headers)
    /\ \A k \in DOMAIN mapping :
            \E j \in 1..Len(headers) :
                headers[j] = k /\ line[j] = mapping[k]

(* C21: write_corrected_csv writes the caller's header and then exactly    *)
(* one line per processed row, in processing order, holding that row's     *)
(* corrected mapping, for rows of every status.                            *)
C21_OneLinePerProcessedRow ==
    IsCorrectedCsv =>
        LET lines == corrected_csv.lines
            rows == normalization_report.normalizations
        IN  /\ corrected_csv.raised = "none"
            /\ lines[1] = corrected_csv.headers
            /\ Len(lines) = 1 + Len(rows)
            /\ \A i \in 1..Len(rows) :
                    LineHolds(corrected_csv.headers, lines[i + 1],
                              rows[i].corrected)

-----------------------------------------------------------------------------
(* The cache of the reference data (remote.py)                              *)
(*                                                                         *)
(* The cache directory is the number of its *.csv files, metadata.json is  *)
(* <<>> or <<[version, release_date, download_date]>>, and download_date   *)
(* is <<age in days>>, or <<>> when it is missing or does not parse.       *)

CACHE_VALIDITY_DAYS == 7

\* the oldest download_date told apart, in days
MaxDays == 8

\* the largest number of data/*.csv files of a release archive
MaxCsv == 2

\* the answer of the GitHub API for the latest release
ReleaseInfo(tag) ==
    [tag_name |-> tag,
     published_at |-> IF tag = "v1" THEN "2025-01-01" ELSE "2025-02-01"]

\* what the network and the archive do during one call: the release lookup,
\* the download, the number of data/*.csv files of the archive and the
\* number of them written before an I/O error
NetworkBehaviours ==
    [lookup : {"ok", "NetworkError"},
     download : {"ok", "HTTPError", "BadZipFile", "OSError"},
     data_files : 0..MaxCsv,
     extracted : 0..MaxCsv]

\* _is_cache_valid with a limit of one day
is_cache_valid_same_day(files, md) ==
    IF files = 0 \/ md = <<>> THEN FALSE
    ELSE IF md[1].download_date = <<>> THEN FALSE
    ELSE md[1].download_date[1] < 1

\* _is_cache_valid
is_cache_valid(files, md) ==
    IF files = 0 \/ md = <<>> THEN FALSE
    ELSE IF md[1].download_date = <<>> THEN FALSE
    ELSE md[1].download_date[1] < CACHE_VALIDITY_DAYS

\* _save_cache_metadata: download_date is now
save_cache_metadata(version, release_date) ==
    <<[version |-> version, release_date |-> release_date,
       download_date |-> <<0>>]>>

\* _download_and_extract_zipball: the files of the target directory after
\* the call and the exception it raised
download_and_extract_zipball(files, net) ==
    IF net.download = "HTTPError"
    THEN [files |-> files, raised |-> "NetworkError"]
    ELSE IF net.download = "BadZipFile"
    THEN [files |-> files, raised |-> "CacheError"]
    ELSE IF net.data_files = 0
    THEN [files |-> files, raised |-> "CacheError"]
    ELSE IF net.download = "OSError"
    THEN [files |-> Min(net.extracted, net.data_files - 1),
          raised |-> "CacheError"]
    ELSE [files |-> net.data_files, raised |-> "none"]

\* what a call of get_default_ground_truth_path did: release is <<tag>>
\* once _get_latest_release_info has returned, download tells whether
\* _download_and_extract_zipball was called, failure is the exception that
\* reached the handlers, raised is "none" when cache_dir was returned
RemoteCall(refresh_cache, files, md, release, download, failure, raised) ==
    [op |-> "get_default_ground_truth_path",
     refresh_cache |-> refresh_cache,
     files_before |-> files,
     metadata_before |-> md,
     network |-> TRUE,
     release |-> release,
     download |-> download,
     failure |-> failure,
     raised |-> raised]

\* the NetworkError handler that returns the cache only while it is valid
network_error_fallback_valid_only(refresh_cache, files, md, release) ==
    [files |-> files, metadata |-> md,
     result |-> RemoteCall(refresh_cache, files, md, release,
                    release # <<>>, "NetworkError",
                    IF is_cache_valid(files, md) THEN "none"
                    ELSE "RemoteError")]

\* the NetworkError handler of get_default_ground_truth_path
network_error_fallback(refresh_cache, files, md, release) ==
    [files |-> files, metadata |-> md,
     result |-> RemoteCall(refresh_cache, files, md, release,
                    release # <<>>, "NetworkError",
                    IF files > 0 THEN "none" ELSE "RemoteError")]

\* get_default_ground_truth_path(refresh_cache=...) with the cache, the
\* latest release and the behaviour of the network
get_default_ground_truth_path(refresh_cache, files, md, tag, net) ==
    LET release_info == ReleaseInfo(tag)
        saved == save_cache_metadata(release_info.tag_name,
                                     release_info.published_at)
        extracted == download_and_extract_zipball(files, net)
    IN  IF ~refresh_cache /\ is_cache_valid(files, md)
        THEN [files |-> files, metadata |-> md,
              result |-> [RemoteCall(refresh_cache, files, md, <<>>, FALSE,
                                     "none", "none")
                            EXCEPT !.network = FALSE]]
        ELSE IF net.lookup = "NetworkError"
        THEN network_error_fallback(refresh_cache, files, md, <<>>)
        ELSE IF /\ ~refresh_cache
                /\ md # <<>>
                /\ md[1].version = release_info.tag_name
        THEN [files |-> files, metadata |-> saved,
              result |-> RemoteCall(refresh_cache, files, md, <<tag>>,
                                    FALSE, "none", "none")]
        ELSE IF extracted.raised = "NetworkError"
        THEN network_error_fallback(refresh_cache, files, md, <<tag>>)
        ELSE IF extracted.raised = "CacheError"
        THEN [files |-> extracted.files, metadata |-> md,
              result |-> RemoteCall(refresh_cache, files, md, <<tag>>,
                                    TRUE, "CacheError", "RemoteError")]
        ELSE [files |-> extracted.files, metadata |-> saved,
              result |-> RemoteCall(refresh_cache, files, md, <<tag>>,
                                    TRUE, "none", "none")]

\* a machine that never ran the program
InitRemote ==
    /\ area = "province"
    /\ confidence_threshold = 80
    /\ ambiguity_threshold = 5
    /\ EmptyIndex
    /\ result = NoResult
    /\ NoDirectory
    /\ NoValidation
    /\ NoNormalizeCsv
    /\ NoLater

\* normalize without --ground-truth calls get_default_ground_truth_path
GetDefaultGroundTruthPath ==
    /\ \E refresh_cache \in BOOLEAN, net \in NetworkBehaviours :
        LET call == get_default_ground_truth_path(refresh_cache,
                        cache_files, metadata, latest_release, net)
        IN  /\ cache_files' = call.files
            /\ metadata' = call.metadata
            /\ result' = call.result
    /\ UNCHANGED <<configVars, indexVars, loadVars, validateVars,
                   reportVars, tempVars, latest_release, writerVars, extractVars>>

\* a day passes: the download gets a day older
DayPasses ==
    /\ metadata # <<>>
    /\ metadata[1].download_date # <<>>
    /\ metadata[1].download_date[1] < MaxDays
    /\ metadata' = <<[metadata[1] EXCEPT !.download_date = <<@[1] + 1>>]>>
    /\ result' = NoResult
    /\ UNCHANGED <<configVars, indexVars, loadVars, validateVars,
                   reportVars, tempVars, cache_files, latest_release, writerVars,
                   extractVars>>

\* a new release is published
NewRelease ==
    /\ latest_release = "v1"
    /\ latest_release' = "v2"
    /\ result' = NoResult
    /\ UNCHANGED <<configVars, indexVars, loadVars, validateVars,
                   reportVars, tempVars, cache_files, metadata, writerVars,
                   extractVars>>

\* metadata.json is damaged from outside: its download_date does not parse
MetadataDamaged ==
    /\ metadata # <<>>
    /\ metadata[1].download_date # <<>>
    /\ metadata' = <<[metadata[1] EXCEPT !.download_date = <<>>]>>
    /\ result' = NoResult
    /\ UNCHANGED <<configVars, indexVars, loadVars, validateVars,
                   reportVars, tempVars, cache_files, latest_release, writerVars,
                   extractVars>>

NextRemote ==
    \/ GetDefaultGroundTruthPath
    \/ DayPasses
    \/ NewRelease
    \/ MetadataDamaged

SpecRemote == InitRemote /\ [][NextRemote]_vars

IsRemoteCall == result.op = "get_default_ground_truth_path"

\* the cache as the call found it: at least one CSV file and metadata whose
\* download_date parses and is less than 7 days old
CacheFoundValid ==
    /\ result.files_before >= 1
    /\ result.metadata_before # <<>>
    /\ result.metadata_before[1].download_date # <<>>
    /\ result.metadata_before[1].download_date[1] < 7

\* the cached metadata names the release the lookup returned
VersionsMatch ==
    /\ result.metadata_before # <<>>
    /\ result.metadata_before[1].version = result.release[1]

(* C22: get_default_ground_truth_path contacts the network only when       *)
(* refresh_cache is set or the cache is not valid; once it has the latest  *)
(* release info it downloads the archive when refresh_cache is set or the  *)
(* cached metadata version differs from the latest tag or metadata is      *)
(* missing, and when the versions match without refresh it downloads       *)
(* nothing and only renews the download_date of the metadata.              *)
C22_NetworkOnlyWhenNeeded ==
    IsRemoteCall =>
        /\ result.network => (result.refresh_cache \/ ~CacheFoundValid)
        /\ ~result.network =>
                /\ result.release = <<>>
                /\ ~result.download
        /\ result.release # <<>> =>
                /\ result.release = <<latest_release>>
                /\ result.download <=>
                        (result.refresh_cache \/ ~VersionsMatch)
                /\ ~result.download =>
                        /\ result.raised = "none"
                        /\ cache_files = result.files_before
                        /\ metadata =
                            <<[result.metadata_before[1]
                                EXCEPT !.download_date = <<0>>]>>

\* a stale cache of the latest release: the release is looked up, nothing
\* is downloaded and the download date is renewed
C22_Witness ==
    /\ IsRemoteCall
    /\ ~result.refresh_cache
    /\ result.files_before >= 1
    /\ result.metadata_before # <<>>
    /\ result.metadata_before[1].download_date = <<7>>
    /\ result.release = <<latest_release>>
    /\ ~result.download
    /\ metadata[1].download_date = <<0>>

(* C23: when the release lookup or the download fails with NetworkError,   *)
(* get_default_ground_truth_path returns the cache directory if it holds   *)
(* at least one CSV file, even a stale one, and raises RemoteError         *)
(* otherwise; a CacheError always becomes RemoteError; in none of these    *)
(* failure cases is the cache metadata written.                            *)
C23_FailuresFallBackToTheCache ==
    IsRemoteCall =>
        /\ result.failure = "NetworkError" =>
                /\ result.raised =
                        (IF result.files_before >= 1 THEN "none"
                         ELSE "RemoteError")
                /\ cache_files = result.files_before
        /\ result.failure = "CacheError" => result.raised = "RemoteError"
        /\ result.failure # "none" => metadata = result.metadata_before

\* the download fails with NetworkError on a stale cache: the cache is
\* returned
C23_Witness ==
    /\ IsRemoteCall
    /\ result.failure = "NetworkError"
    /\ result.download
    /\ result.files_before >= 1
    /\ result.metadata_before # <<>>
    /\ result.metadata_before[1].download_date = <<8>>
    /\ result.raised = "none"

(* C30: whenever get_default_ground_truth_path returns normally (valid     *)
(* cache, version-match shortcut, fresh download, network-error fallback)  *)
(* the directory it returns contains at least one CSV file.                *)
C30_ReturnedDirectoryHasCsv ==
    (IsRemoteCall /\ result.raised = "none") => cache_files >= 1

-----------------------------------------------------------------------------
(* Buffered output files (writer.py) and the extractors that own them      *)
(* (extractors.py)                                                         *)

\* the most rows given to one writer
MaxAdded == 3

\* config.data[area].batch_size
batch_size == 2

\* the order of TableExtractor._writers
WriterOrder == <<"province", "regency">>

\* OutputWriter.open
writer_open(w) ==
    IF w.open
    THEN [writer |-> w, raised |-> "RuntimeError"]
    ELSE [writer |-> [w EXCEPT
                        !.open = TRUE,
                        !.file = <<<<>>>>,
                        !.pending = IF w.header # <<>> THEN <<w.header>>
                                    ELSE <<>>,
                        !.base = Len(w.added) - Len(w.buffer)],
          raised |-> "none"]

\* flush that writes the buffer and keeps it
writer_flush_keeps_buffer(w) ==
    IF w.buffer = <<>>
    THEN [writer |-> w, raised |-> "none"]
    ELSE IF ~w.open
    THEN [writer |-> w, raised |-> "RuntimeError"]
    ELSE [writer |-> [w EXCEPT
                        !.file = <<w.file[1] \o w.pending \o w.buffer>>,
                        !.pending = <<>>],
          raised |-> "none"]

\* OutputWriter.flush
writer_flush(w) ==
    IF w.buffer = <<>>
    THEN [writer |-> w, raised |-> "none"]
    ELSE IF ~w.open
    THEN [writer |-> w, raised |-> "RuntimeError"]
    ELSE [writer |-> [w EXCEPT
                        !.file = <<w.file[1] \o w.pending \o w.buffer>>,
                        !.pending = <<>>,
                        !.buffer = <<>>],
          raised |-> "none"]

\* close that tells a writer that is not open to open first
writer_close_raises(w) ==
    IF ~w.open
    THEN [writer |-> w, raised |-> "RuntimeError"]
    ELSE LET flushed == writer_flush(w).writer
         IN  [writer |-> [flushed EXCEPT
                            !.file = <<flushed.file[1] \o flushed.pending>>,
                            !.pending = <<>>,
                            !.open = FALSE],
              raised |-> "none"]

\* OutputWriter.close
writer_close(w) ==
    IF ~w.open
    THEN [writer |-> w, raised |-> "none"]
    ELSE LET flushed == writer_flush(w).writer
         IN  [writer |-> [flushed EXCEPT
                            !.file = <<flushed.file[1] \o flushed.pending>>,
                            !.pending = <<>>,
                            !.open = FALSE],
              raised |-> "none"]

\* OutputWriter.add
writer_add(w, rows) ==
    [w EXCEPT !.buffer = @ \o rows, !.added = @ \o rows]

\* TableExtractor._open_outputs from the k-th writer on
RECURSIVE open_outputs(_, _)
open_outputs(ws, k) ==
    IF k > Len(WriterOrder) THEN [writers |-> ws, raised |-> "none"]
    ELSE LET a == WriterOrder[k]
             opened == writer_open(ws[a])
         IN  IF opened.raised # "none"
             THEN [writers |-> ws, raised |-> opened.raised]
             ELSE open_outputs([ws EXCEPT ![a] = opened.writer], k + 1)

\* TableExtractor._close_outputs from the k-th writer on
RECURSIVE close_outputs(_, _)
close_outputs(ws, k) ==
    IF k > Len(WriterOrder) THEN [writers |-> ws, raised |-> "none"]
    ELSE LET a == WriterOrder[k]
             flushed == writer_flush(ws[a])
             closed == writer_close(flushed.writer)
         IN  IF flushed.raised # "none"
             THEN [writers |-> ws, raised |-> flushed.raised]
             ELSE close_outputs([ws EXCEPT ![a] = closed.writer], k + 1)

\* TableExtractor._write_rows
write_rows(ws, a, rows) ==
    IF rows = <<>> THEN [writers |-> ws, raised |-> "none"]
    ELSE LET w == writer_add(ws[a], rows)
             flushed == writer_flush(w)
         IN  IF Len(w.buffer) >= batch_size
             THEN [writers |-> [ws EXCEPT ![a] = flushed.writer],
                   raised |-> flushed.raised]
             ELSE [writers |-> [ws EXCEPT ![a] = w], raised |-> "none"]

\* AreaExtractor._extract_rows that lets a repeated province through
RECURSIVE extract_rows_keeps_duplicates(_, _, _)
extract_rows_keeps_duplicates(seen, pairs, rows_by_key) ==
    IF pairs = <<>> THEN [seen |-> seen, rows |-> rows_by_key]
    ELSE LET code == Head(pairs).code
             name == Head(pairs).name
         IN  IF Len(code) = PROVINCE_CODE_LENGTH
             THEN extract_rows_keeps_duplicates(seen \cup {code}, Tail(pairs),
                    [rows_by_key EXCEPT
                        !.province = Append(@, <<code, name>>)])
             ELSE IF Len(code) = REGENCY_CODE_LENGTH
             THEN extract_rows_keeps_duplicates(seen, Tail(pairs),
                    [rows_by_key EXCEPT
                        !.regency = Append(@,
                            <<code, SubSeq(code, 1, PROVINCE_CODE_LENGTH),
                              name>>)])
             ELSE extract_rows_keeps_duplicates(seen, Tail(pairs),
                                                rows_by_key)

\* AreaExtractor._extract_rows over the pairs of _code_name_pairs(df); the
\* rows of the district and village outputs are not followed
RECURSIVE extract_rows(_, _, _)
extract_rows(seen, pairs, rows_by_key) ==
    IF pairs = <<>> THEN [seen |-> seen, rows |-> rows_by_key]
    ELSE LET code == Head(pairs).code
             name == Head(pairs).name
         IN  IF Len(code) = PROVINCE_CODE_LENGTH
             THEN IF code \notin seen
                  THEN extract_rows(seen \cup {code}, Tail(pairs),
                            [rows_by_key EXCEPT
                                !.province = Append(@, <<code, name>>)])
                  ELSE extract_rows(seen, Tail(pairs), rows_by_key)
             ELSE IF Len(code) = REGENCY_CODE_LENGTH
             THEN extract_rows(seen, Tail(pairs),
                    [rows_by_key EXCEPT
                        !.regency = Append(@,
                            <<code, SubSeq(code, 1, PROVINCE_CODE_LENGTH),
                              name>>)])
             ELSE extract_rows(seen, Tail(pairs), rows_by_key)

\* the loop of TableExtractor.extract_and_write from the k-th key on
RECURSIVE write_all(_, _, _, _)
write_all(ws, rows_by_key, k, total) ==
    IF k > Len(WriterOrder)
    THEN [writers |-> ws, total |-> <<total>>, raised |-> "none"]
    ELSE LET a == WriterOrder[k]
             written == write_rows(ws, a, rows_by_key[a])
         IN  IF written.raised # "none"
             THEN [writers |-> written.writers, total |-> <<>>,
                   raised |-> written.raised]
             ELSE write_all(written.writers, rows_by_key, k + 1,
                            total + Len(rows_by_key[a]))

\* TableExtractor.extract_and_write of an AreaExtractor
extract_and_write(ws, seen, pairs) ==
    LET data == extract_rows(seen, pairs, [a \in WriterIds |-> <<>>])
        written == write_all(ws, data.rows, 1, 0)
    IN  [writers |-> written.writers, seen |-> data.seen,
         total |-> written.total, raised |-> written.raised]

\* the most pairs of one table
MaxPairs == 2

\* the (code, name) pairs _code_name_pairs finds in the tables
CodeNamePairs ==
    {[code |-> <<"1", "1">>, name |-> <<"A">>],
     [code |-> <<"1", "2">>, name |-> <<"A">>],
     [code |-> <<"1", "1", ".", "0", "1">>, name |-> <<"C">>]}

Tables == SeqsUpTo(CodeNamePairs, MaxPairs)

\* the rows a caller gives to add() of a writer
OutputRows(a) ==
    IF a = "province"
    THEN {<<<<"1", "1">>, <<"A">>>>}
    ELSE {<<<<"1", "1", ".", "0", "1">>, <<"1", "1">>, <<"C">>>>}

\* no writer was given more than MaxAdded rows
Bounded(ws) == \A a \in WriterIds : Len(ws[a].added) <= MaxAdded

\* an AreaExtractor is constructed
InitWriter ==
    /\ area = "province"
    /\ confidence_threshold = 80
    /\ ambiguity_threshold = 5
    /\ EmptyIndex
    /\ result = NoResult
    /\ NoDirectory
    /\ NoValidation
    /\ NoNormalizeCsv
    /\ NoLater

\* writer.open() or "with writer:" outside an extractor's with-block
WriterOpen ==
    /\ extract_pc = "idle"
    /\ \E a \in WriterIds :
        LET call == writer_open(writers[a])
        IN  /\ writers' = [writers EXCEPT ![a] = call.writer]
            /\ result' = [op |-> "open", writer |-> a,
                          before |-> writers[a], raised |-> call.raised]
    /\ UNCHANGED <<configVars, indexVars, loadVars, validateVars,
                   reportVars, tempVars, remoteVars, seen_provinces, extractVars>>

\* writer.close() or the end of "with writer:"
WriterClose ==
    /\ extract_pc = "idle"
    /\ \E a \in WriterIds :
        LET call == writer_close(writers[a])
        IN  /\ writers' = [writers EXCEPT ![a] = call.writer]
            /\ result' = [op |-> "close", writer |-> a,
                          before |-> writers[a], raised |-> call.raised]
    /\ UNCHANGED <<configVars, indexVars, loadVars, validateVars,
                   reportVars, tempVars, remoteVars, seen_provinces, extractVars>>

\* writer.flush()
WriterFlush ==
    /\ extract_pc = "idle"
    /\ \E a \in WriterIds :
        LET call == writer_flush(writers[a])
        IN  /\ writers' = [writers EXCEPT ![a] = call.writer]
            /\ result' = [op |-> "flush", writer |-> a,
                          before |-> writers[a], raised |-> call.raised]
    /\ UNCHANGED <<configVars, indexVars, loadVars, validateVars,
                   reportVars, tempVars, remoteVars, seen_provinces, extractVars>>

\* writer.add([row])
WriterAdd ==
    /\ extract_pc = "idle"
    /\ \E a \in WriterIds :
        \E row \in OutputRows(a) :
            /\ Len(writers[a].added) < MaxAdded
            /\ writers' = [writers EXCEPT ![a] = writer_add(@, <<row>>)]
            /\ result' = [op |-> "add", writer |-> a,
                          before |-> writers[a], raised |-> "none"]
    /\ UNCHANGED <<configVars, indexVars, loadVars, validateVars,
                   reportVars, tempVars, remoteVars, seen_provinces, extractVars>>

\* "with extractor:" is entered (TableExtractor.__enter__)
ExtractorEnter ==
    /\ extract_pc = "idle"
    /\ LET call == open_outputs(writers, 1)
       IN  /\ writers' = call.writers
           /\ extract_pc' = IF call.raised = "none" THEN "with" ELSE "idle"
           /\ result' = [op |-> "enter", before |-> writers,
                         raised |-> call.raised]
    /\ UNCHANGED <<configVars, indexVars, loadVars, validateVars,
                   reportVars, tempVars, remoteVars, seen_provinces, interrupted,
                   chunks, chunk_pos, extracted_count, interrupted_at>>

\* extractor.extract_and_write(df) inside the with-block
ExtractAndWrite ==
    /\ extract_pc = "with"
    /\ \E pairs \in Tables :
        LET call == extract_and_write(writers, seen_provinces, pairs)
        IN  /\ Bounded(call.writers)
            /\ writers' = call.writers
            /\ seen_provinces' = call.seen
            /\ result' = [op |-> "extract_and_write",
                          total |-> call.total, raised |-> call.raised]
    /\ UNCHANGED <<configVars, indexVars, loadVars, validateVars,
                   reportVars, tempVars, remoteVars, extractVars>>

\* the with-block is left, by its end or by an exception
\* (TableExtractor.__exit__)
ExtractorExit ==
    /\ extract_pc = "with"
    /\ \E exception \in BOOLEAN :
        LET call == close_outputs(writers, 1)
        IN  /\ writers' = call.writers
            /\ result' = [op |-> "exit", before |-> writers,
                          exception |-> exception, raised |-> call.raised]
    /\ extract_pc' = "idle"
    /\ UNCHANGED <<configVars, indexVars, loadVars, validateVars,
                   reportVars, tempVars, remoteVars, seen_provinces, interrupted,
                   chunks, chunk_pos, extracted_count, interrupted_at>>

NextWriter ==
    \/ WriterOpen
    \/ WriterClose
    \/ WriterFlush
    \/ WriterAdd
    \/ ExtractorEnter
    \/ ExtractAndWrite
    \/ ExtractorExit

SpecWriter == InitWriter /\ [][NextWriter]_vars

IsWriterCall(op) == result.op = op

(* C24: open() on a writer that is already open raises RuntimeError and    *)
(* leaves it open; close() on a writer that was never opened is a no-op    *)
(* that creates no file; flush() on a writer that is not open raises       *)
(* RuntimeError when rows are buffered.                                    *)
C24_LifecycleErrors ==
    /\ (IsWriterCall("open") /\ result.before.open) =>
            /\ result.raised = "RuntimeError"
            /\ writers[result.writer] = result.before
    /\ (IsWriterCall("close") /\ ~result.before.open
            /\ result.before.file = <<>>) =>
            /\ result.raised = "none"
            /\ writers[result.writer] = result.before
            /\ writers[result.writer].file = <<>>
    /\ (IsWriterCall("flush") /\ ~result.before.open
            /\ result.before.buffer # <<>>) =>
            /\ result.raised = "RuntimeError"
            /\ writers[result.writer] = result.before

\* close() of a writer that was never opened and holds a buffered row
C24_Witness ==
    /\ IsWriterCall("close")
    /\ ~result.before.open
    /\ result.before.file = <<>>
    /\ result.before.buffer # <<>>
    /\ result.raised = "none"

\* open() of an open writer
C24_WitnessOpenTwice ==
    /\ IsWriterCall("open")
    /\ result.before.open
    /\ result.raised = "RuntimeError"
    /\ writers[result.writer].open

\* flush() of a writer with a buffered row that is not open
C24_WitnessFlush ==
    /\ IsWriterCall("flush")
    /\ ~result.before.open
    /\ result.before.buffer # <<>>
    /\ result.raised = "RuntimeError"

\* the lines of the file of a writer: its header, then every row given to
\* add() since the rows that open() found in the buffer
LinesOf(w) ==
    (IF w.header # <<>> THEN <<w.header>> ELSE <<>>)
        \o SubSeq(w.added, w.base + 1, Len(w.added))

ClosedWithEveryRow(w) ==
    /\ ~w.open
    /\ w.buffer = <<>>
    /\ w.file = <<LinesOf(w)>>

(* C26: for any sequence of add calls, explicit flushes and flushes        *)
(* triggered by the batch size between opening and closing an OutputWriter *)
(* (directly or through a TableExtractor context), the file holds after    *)
(* close the header followed by every added row exactly once, in the order *)
(* added, also when the with-block is left through an exception.           *)
C26_FileHoldsEveryRowOnce ==
    /\ (IsWriterCall("close") /\ result.before.open) =>
            /\ result.raised = "none"
            /\ ClosedWithEveryRow(writers[result.writer])
    /\ IsWriterCall("exit") =>
            /\ result.raised = "none"
            /\ \A a \in WriterIds : ClosedWithEveryRow(writers[a])

\* the with-block is left through an exception after three regency rows,
\* two of them flushed by the batch size and one still buffered
C26_Witness ==
    /\ IsWriterCall("exit")
    /\ result.exception
    /\ Len(result.before.regency.buffer) = 1
    /\ Len(result.before.regency.file[1]) = 3
    /\ Len(writers.regency.file[1]) = 4
    /\ Len(writers.province.file[1]) = 3

\* a writer used directly: add, flush, add, close
C26_WitnessDirect ==
    /\ IsWriterCall("close")
    /\ result.before.open
    /\ Len(result.before.buffer) = 1
    /\ Len(result.before.file[1]) = 2
    /\ Len(writers[result.writer].file[1]) = 3

-----------------------------------------------------------------------------
(* Isolated temporary directories (utils.CamelotTempDir)                   *)
(* A directory is its path, a tuple of names; <<>> is None. The function   *)
(* atexit.register is <<>> when it is the built-in and the temp_dir of a   *)
(* block when it is that block's tracking_register. tempenv.blocks are the *)
(* CamelotTempDir objects whose with-block is running, innermost last.     *)

\* the most blocks nested in each other
MaxDepth == 2

\* the most directories made by mkdtemp in one run
MaxMade == 3

\* the base_dir a caller passes to CamelotTempDir
BaseDir == <<1>>

\* str(q).startswith(str(p)) for paths
IsPrefix(p, q) == Len(p) <= Len(q) /\ SubSeq(q, 1, Len(p)) = p

\* tempfile.gettempdir(): the default is looked up once and kept in
\* tempfile.tempdir
gettempdir(env) ==
    IF env.tempdir = <<>> THEN [env EXCEPT !.tempdir = DefaultTempDir]
    ELSE env

\* tempfile.mkdtemp(prefix=..., dir=dir): a fresh name under dir, or under
\* gettempdir() when dir is None
mkdtemp(env, dir) ==
    LET looked == IF dir = <<>> THEN gettempdir(env) ELSE env
        parent == IF dir = <<>> THEN looked.tempdir ELSE dir
        path == Append(parent, env.made + 1)
    IN  IF parent \notin looked.dirs
        THEN [env |-> looked, path |-> <<>>,
              raised |-> "FileNotFoundError"]
        ELSE [env |-> [looked EXCEPT !.dirs = @ \cup {path},
                                     !.made = @ + 1],
              path |-> path, raised |-> "none"]

\* Path.mkdir(parents=True, exist_ok=True)
mkdir_parents(dirs, path) ==
    dirs \cup {SubSeq(path, 1, k) : k \in 1..Len(path)}

\* shutil.rmtree(path, ignore_errors=True)
rmtree(dirs, path) == {d \in dirs : ~IsPrefix(path, d)}

\* CamelotTempDir(base_dir).__enter__(); entry is history: the values of
\* tempfile.tempdir and atexit.register when __enter__ was called
CamelotTempDir_enter(env, base_dir) ==
    LET based == IF base_dir # <<>>
                 THEN [env EXCEPT !.dirs = mkdir_parents(@, base_dir)]
                 ELSE env
        made == mkdtemp(based, base_dir)
        self == [temp_dir |-> made.path,
                 original_tmpdir |-> made.env.tempdir,
                 original_register |-> env.register,
                 tracked_funcs |-> 0,
                 entry |-> [tempdir |-> env.tempdir,
                            register |-> env.register]]
    IN  IF made.raised # "none"
        THEN [env |-> made.env, raised |-> made.raised]
        ELSE [env |-> [made.env EXCEPT !.tempdir = made.path,
                                      !.register = made.path,
                                      !.blocks = Append(@, self)],
              raised |-> "none"]

\* a call of the function register(func, arg): tracking_register of the
\* block whose temp_dir is register, passing on to its _original_register,
\* down to the built-in atexit.register
RECURSIVE tracking_register(_, _, _, _)
tracking_register(env, register, func, arg) ==
    IF register = <<>>
    THEN [env EXCEPT !.handlers = Append(@, [func |-> func, arg |-> arg])]
    ELSE LET i == CHOOSE k \in 1..Len(env.blocks) :
                        env.blocks[k].temp_dir = register
             self == env.blocks[i]
             tracked == /\ func = "rmtree"
                        /\ arg # <<>>
                        /\ IsPrefix(self.temp_dir, arg)
         IN  tracking_register(
                IF tracked
                THEN [env EXCEPT !.blocks[i].tracked_funcs = @ + 1]
                ELSE env,
                self.original_register, func, arg)

\* atexit.unregister(func): every registration of func is removed
unregister(handlers, func) ==
    SelectSeq(handlers, LAMBDA h : h.func # func)

\* CamelotTempDir.__exit__ of the innermost block
CamelotTempDir_exit(env) ==
    LET self == env.blocks[Len(env.blocks)]
    IN  [env EXCEPT
            !.register = self.original_register,
            !.tempdir = self.original_tmpdir,
            !.handlers = IF self.tracked_funcs > 0
                         THEN unregister(@, "rmtree")
                         ELSE @,
            !.dirs = rmtree(@, self.temp_dir),
            !.blocks = SubSeq(@, 1, Len(@) - 1)]

\* a process in which tempfile.gettempdir() may already have been called
InitTemp ==
    /\ area = "province"
    /\ confidence_threshold = 80
    /\ ambiguity_threshold = 5
    /\ EmptyIndex
    /\ result = NoResult
    /\ NoDirectory
    /\ NoValidation
    /\ NoNormalizeCsv
    /\ NoRemote
    /\ NoWriter
    /\ NoExtract
    /\ \E dir \in {<<>>, DefaultTempDir} :
            tempenv = [tempdir |-> dir, register |-> <<>>,
                       handlers |-> <<>>, dirs |-> {DefaultTempDir},
                       blocks |-> <<>>, made |-> 0]
    /\ tmpdir = <<>>

TempUnchanged ==
    UNCHANGED <<configVars, indexVars, loadVars, validateVars, reportVars,
                remoteVars, writerVars, extractVars, tmpdir>>

\* "with CamelotTempDir(base_dir=...):" is entered
CamelotEnter ==
    /\ Len(tempenv.blocks) < MaxDepth
    /\ tempenv.made < MaxMade
    /\ \E base_dir \in {<<>>, BaseDir} :
            LET call == CamelotTempDir_enter(tempenv, base_dir)
            IN  /\ tempenv' = call.env
                /\ result' = [op |-> "camelot_enter",
                              base_dir |-> base_dir,
                              raised |-> call.raised]
    /\ TempUnchanged

\* camelot in the block: a TemporaryDirectory is made with mkdtemp() and
\* atexit.register(shutil.rmtree, name) is called for it
CamelotMakesTemp ==
    /\ tempenv.blocks # <<>>
    /\ tempenv.made < MaxMade
    /\ LET made == mkdtemp(tempenv, <<>>)
       IN  tempenv' = IF made.raised # "none" THEN made.env
                      ELSE tracking_register(made.env, made.env.register,
                                             "rmtree", made.path)
    /\ result' = NoResult
    /\ TempUnchanged

\* some code registers an exit handler of its own
RegisterOther ==
    /\ Len(tempenv.handlers) < MaxMade
    /\ tempenv' = tracking_register(tempenv, tempenv.register, "other",
                                    <<>>)
    /\ result' = NoResult
    /\ TempUnchanged

\* the code of the block removes the block's directory itself
BlockRemovesDir ==
    /\ tempenv.blocks # <<>>
    /\ LET self == tempenv.blocks[Len(tempenv.blocks)]
       IN  /\ self.temp_dir \in tempenv.dirs
           /\ tempenv' = [tempenv EXCEPT !.dirs = rmtree(@, self.temp_dir)]
    /\ result' = NoResult
    /\ TempUnchanged

\* the innermost block is left, normally or through an exception
CamelotExit ==
    /\ tempenv.blocks # <<>>
    /\ \E exception \in BOOLEAN :
            result' = [op |-> "camelot_exit",
                       self |-> tempenv.blocks[Len(tempenv.blocks)],
                       dirs_before |-> tempenv.dirs,
                       exception |-> exception]
    /\ tempenv' = CamelotTempDir_exit(tempenv)
    /\ TempUnchanged

NextTemp ==
    \/ CamelotEnter
    \/ CamelotMakesTemp
    \/ RegisterOther
    \/ BlockRemovesDir
    \/ CamelotExit

SpecTemp == InitTemp /\ [][NextTemp]_vars

\* a block has just been left
IsCamelotExit == result.op = "camelot_exit"

(* C28: on leaving a CamelotTempDir block, normally or through an          *)
(* exception, tempfile.tempdir and atexit.register are restored to the     *)
(* values they had on entry and the block's temporary directory no longer  *)
(* exists; with properly nested blocks the inner exit restores the outer   *)
(* block's values and leaves the outer directory in place until the outer  *)
(* exit.                                                                   *)
C28_ExitRestoresEntryValues ==
    IsCamelotExit =>
        /\ tempenv.tempdir = result.self.entry.tempdir
        /\ tempenv.register = result.self.entry.register
        /\ result.self.temp_dir \notin tempenv.dirs
        /\ tempenv.blocks # <<>> =>
                LET outer == tempenv.blocks[Len(tempenv.blocks)]
                IN  outer.temp_dir \in result.dirs_before
                        => outer.temp_dir \in tempenv.dirs

-----------------------------------------------------------------------------
(* The extract command (cli.py)                                            *)

\* the most chunks of pages of one run
MaxChunks == 3

\* what camelot.read_pdf gives for a chunk of pages: an exception, or
\* tables; matches tells whether AreaExtractor.matches(df) holds, pairs is
\* _code_name_pairs(df)
ChunkPool ==
    {[read |-> "error", tables |-> <<>>],
     [read |-> "ok",
      tables |-> <<[matches |-> FALSE, pairs |-> <<>>]>>],
     [read |-> "ok",
      tables |-> <<[matches |-> TRUE,
                    pairs |-> <<[code |-> <<"1", "1">>, name |-> <<"A">>],
                                [code |-> <<"1", "1", ".", "0", "1">>,
                                 name |-> <<"C">>]>>]>>],
     [read |-> "ok",
      tables |-> <<[matches |-> TRUE,
                    pairs |-> <<[code |-> <<"1", "1">>, name |-> <<"B">>],
                                [code |-> <<"1", "2">>,
                                 name |-> <<"A">>]>>],
                   [matches |-> TRUE,
                    pairs |-> <<[code |-> <<"1", "2">>, name |-> <<"B">>],
                                [code |-> <<"1", "2">>,
                                 name |-> <<"C">>]>>]>>]}

\* handle_sigint
handle_sigint(flag) == TRUE

\* the loop that goes on to the next chunk whatever the flag
reads_next_chunk_whatever(flag, pos, n) == pos < n

\* "for chunk in chunked(...): if interrupted: break": whether the loop
\* reads one more chunk
reads_next_chunk(flag, pos, n) == ~flag /\ pos < n

\* the loop over the tables of a chunk: state is [writers, seen, count]
RECURSIVE extract_tables(_, _)
extract_tables(state, tables) ==
    IF tables = <<>> THEN state
    ELSE IF ~Head(tables).matches
    THEN extract_tables(state, Tail(tables))
    ELSE LET call == extract_and_write(state.writers, state.seen,
                                       Head(tables).pairs)
         IN  extract_tables(
                [writers |-> call.writers, seen |-> call.seen,
                 count |-> IF call.raised = "none"
                           THEN state.count + call.total[1]
                           ELSE state.count],
                Tail(tables))

\* the extract command is started on a PDF
InitExtract ==
    /\ area = "province"
    /\ confidence_threshold = 80
    /\ ambiguity_threshold = 5
    /\ EmptyIndex
    /\ result = NoResult
    /\ NoDirectory
    /\ NoValidation
    /\ NoNormalizeCsv
    /\ NoRemote
    /\ NoWriter
    /\ tempenv = [tempdir |-> <<>>, register |-> <<>>, handlers |-> <<>>,
                  dirs |-> {DefaultTempDir}, blocks |-> <<>>, made |-> 0]
    /\ tmpdir \in {<<>>, BaseDir}
    /\ interrupted = FALSE
    /\ extract_pc = "start"
    /\ chunks \in SeqsUpTo(ChunkPool, MaxChunks)
    /\ chunk_pos = 0
    /\ extracted_count = 0
    /\ interrupted_at = <<>>

\* the directory of --tmpdir is made and the with-statement enters the
\* extractors
ExtractStart ==
    /\ extract_pc = "start"
    /\ tempenv' = IF tmpdir # <<>>
                  THEN [tempenv EXCEPT !.dirs = mkdir_parents(@, tmpdir)]
                  ELSE tempenv
    /\ writers' = open_outputs(writers, 1).writers
    /\ extract_pc' = "loop"
    /\ UNCHANGED <<configVars, indexVars, result, loadVars, validateVars,
                   reportVars, tmpdir, remoteVars, seen_provinces, interrupted,
                   chunks, chunk_pos, extracted_count, interrupted_at>>

\* the loop goes on: the CamelotTempDir block of the next chunk is entered
\* and camelot.read_pdf is called
ChunkBegin ==
    /\ extract_pc = "loop"
    /\ reads_next_chunk(interrupted, chunk_pos, Len(chunks))
    /\ tempenv' = CamelotTempDir_enter(tempenv, tmpdir).env
    /\ extract_pc' = "chunk"
    /\ UNCHANGED <<configVars, indexVars, result, loadVars, validateVars,
                   reportVars, tmpdir, remoteVars, writerVars, interrupted, chunks,
                   chunk_pos, extracted_count, interrupted_at>>

\* read_pdf has returned or raised: the tables of the chunk are extracted
\* and the CamelotTempDir block is left
ChunkEnd ==
    /\ extract_pc = "chunk"
    /\ tempenv' = CamelotTempDir_exit(tempenv)
    /\ LET done == extract_tables(
                        [writers |-> writers, seen |-> seen_provinces,
                         count |-> extracted_count],
                        chunks[chunk_pos + 1].tables)
       IN  /\ writers' = done.writers
           /\ seen_provinces' = done.seen
           /\ extracted_count' = done.count
    /\ chunk_pos' = chunk_pos + 1
    /\ extract_pc' = "loop"
    /\ UNCHANGED <<configVars, indexVars, result, loadVars, validateVars,
                   reportVars, tmpdir, remoteVars, interrupted, chunks,
                   interrupted_at>>

\* the loop ends or breaks: the with-statement leaves the extractors and
\* the command exits
ExtractExit ==
    /\ extract_pc = "loop"
    /\ ~reads_next_chunk(interrupted, chunk_pos, Len(chunks))
    /\ writers' = close_outputs(writers, 1).writers
    /\ extract_pc' = "done"
    /\ result' = [op |-> "extract",
                  exit_code |-> IF extracted_count = 0 THEN 1 ELSE 0]
    /\ UNCHANGED <<configVars, indexVars, loadVars, validateVars,
                   reportVars, tempVars, remoteVars, seen_provinces, interrupted,
                   chunks, chunk_pos, extracted_count, interrupted_at>>

\* SIGINT arrives
Sigint ==
    /\ extract_pc # "done"
    /\ interrupted' = handle_sigint(interrupted)
    /\ interrupted_at' =
            IF interrupted_at # <<>> THEN interrupted_at
            ELSE <<chunk_pos + (IF extract_pc = "chunk" THEN 1 ELSE 0)>>
    /\ UNCHANGED <<configVars, indexVars, result, loadVars, validateVars,
                   reportVars, tempVars, remoteVars, writerVars, extract_pc, chunks,
                   chunk_pos, extracted_count>>

\* the steps of the command
ExtractStep ==
    \/ ExtractStart
    \/ ChunkBegin
    \/ ChunkEnd
    \/ ExtractExit

NextExtract ==
    \/ ExtractStep
    \/ Sigint

SpecExtract == InitExtract /\ [][NextExtract]_vars

\* the command moves on to its next position; in every position before
\* "done" one of the steps of the command is enabled, and only they change
\* the position
ExtractMovesOn ==
    \/ extract_pc = "start" /\ extract_pc' = "loop"
    \/ extract_pc = "loop" /\ extract_pc' \in {"chunk", "done"}
    \/ extract_pc = "chunk" /\ extract_pc' = "loop"

\* the command keeps running: the signal handler only sets a flag
SpecExtractFair == SpecExtract /\ WF_extract_pc(ExtractMovesOn)

\* the pairs of the tables of a chunk that the extractor takes
RECURSIVE PairsOfTables(_)
PairsOfTables(tables) ==
    IF tables = <<>> THEN <<>>
    ELSE (IF Head(tables).matches THEN Head(tables).pairs ELSE <<>>)
            \o PairsOfTables(Tail(tables))

\* the pairs of the first k chunks, in reading order
RECURSIVE PairsOfChunks(_)
PairsOfChunks(k) ==
    IF k = 0 THEN <<>>
    ELSE PairsOfChunks(k - 1) \o PairsOfTables(chunks[k].tables)

\* the rows of an output for the pairs from the i-th on: a province row
\* for the first pair of every two-character code, a regency row for
\* every pair with a five-character code
RECURSIVE RowsFor(_, _, _)
RowsFor(a, pairs, i) ==
    IF i > Len(pairs) THEN <<>>
    ELSE LET code == pairs[i].code
             row == IF a = "province" THEN <<code, pairs[i].name>>
                    ELSE <<code, <<code[1], code[2]>>, pairs[i].name>>
             kept == IF a = "province"
                     THEN /\ Len(code) = 2
                          /\ \A j \in 1..(i - 1) : pairs[j].code # code
                     ELSE Len(code) = 5
         IN  (IF kept THEN <<row>> ELSE <<>>) \o RowsFor(a, pairs, i + 1)

\* the chunks whose reading has begun
ChunksBegun == chunk_pos + (IF extract_pc = "chunk" THEN 1 ELSE 0)

\* every output file is closed and holds its header and the rows of the
\* chunks read
OutputsComplete ==
    \A a \in WriterIds :
        /\ ~writers[a].open
        /\ writers[a].buffer = <<>>
        /\ writers[a].file =
                <<<<output_headers(a)>>
                    \o RowsFor(a, PairsOfChunks(chunk_pos), 1)>>

InterruptedRun ==
    /\ interrupted_at # <<>> => ChunksBegun <= interrupted_at[1]
    /\ (extract_pc = "done" /\ interrupted_at # <<>>) =>
            /\ chunk_pos = interrupted_at[1]
            /\ OutputsComplete

(* C25: in the extract command, once the interrupted flag is set by        *)
(* SIGINT, the chunk in progress is finished, no further chunk is read,    *)
(* and the extractors' output files are still flushed and closed with      *)
(* every row extracted up to then.                                         *)
C25_InterruptFinishesTheChunk ==
    /\ []InterruptedRun
    /\ interrupted ~> (extract_pc = "done" /\ OutputsComplete)

\* SIGINT arrived while the first of three chunks was read: the run ended
\* after that chunk with its rows in the files
C25_Witness ==
    /\ extract_pc = "done"
    /\ interrupted_at = <<1>>
    /\ Len(chunks) = 3
    /\ chunk_pos = 1
    /\ Len(writers.province.file[1]) = 2
    /\ Len(writers.regency.file[1]) = 2

(* C27: across any sequence of extract_and_write calls on one              *)
(* AreaExtractor, each province code is emitted to the province output at  *)
(* most once (the first occurrence wins), and the row count returned by    *)
(* extract_and_write does not include the suppressed duplicates.           *)
C27_ProvinceEmittedOnce ==
    LET emitted == writers.province.added
    IN  /\ \A i, j \in 1..Len(emitted) :
                emitted[i][1] = emitted[j][1] => i = j
        /\ emitted = RowsFor("province", PairsOfChunks(chunk_pos), 1)
        /\ writers.regency.added
                = RowsFor("regency", PairsOfChunks(chunk_pos), 1)
        /\ extracted_count
                = Len(emitted) + Len(writers.regency.added)

\* three calls gave province 11 twice and province 12 three times: two
\* province rows, with the names of the first occurrences, and one regency
\* row were emitted and counted
C27_Witness ==
    /\ extract_pc = "done"
    /\ chunk_pos = 2
    /\ Len(PairsOfChunks(chunk_pos)) = 6
    /\ writers.province.added
            = << <<<<"1", "1">>, <<"A">>>>, <<<<"1", "2">>, <<"A">>>> >>
    /\ extracted_count = 3

-----------------------------------------------------------------------------
(* Normalizing a corrected row again *)

\* the result of normalizing the corrected mapping of the last call again
Again == normalize_row(Out.corrected, 2, area)

(* C29: corrections converge in one pass: for every row that normalize_row *)
(* classifies as corrected (by the exact-code path or by accepting a fuzzy *)
(* candidate), normalizing its corrected mapping again against the same    *)
(* index yields status valid with that mapping unchanged.                  *)
C29_CorrectionsConverge ==
    (IsNorm /\ Out.status = "corrected")
    => /\ Again.status = "valid"
       /\ Again.corrected = Out.corrected

=============================================================================
